---- MODULE Spec2Model ----
(***************************************************************************)
(* EasyTrack data-collection platform: the Cassandra-backed registry       *)
(* (users, campaigns, participant bindings), the per-(campaign,user) data  *)
(* tables, and the gRPC / dashboard handlers that write and read them.     *)
(*                                                                         *)
(* A handler runs on a worker thread of the server's thread pool; every    *)
(* session.execute(...) is one atomic step on the shared database, and     *)
(* steps of different threads interleave freely.  A handler that issues a  *)
(* single write, or only reads rows that no handler changes under it, is   *)
(* one action; bindUserToCampaign, which checks, inserts and creates in    *)
(* three statements, is three.                                             *)
(***************************************************************************)
EXTENDS Integers, Sequences, FiniteSets, TLC

(***************************************************************************)
(* Bounds of the model.                                                    *)
(***************************************************************************)
NumUsers == 2
NumThreads == 2
NumDataSources == 2
MaxBindCalls == 2
MaxTimestamp == 2
MaxRows == 2
MaxBatch == 2
NumSchemaStatements == 3
MaxOutages == 3
MaxDumps == 1
MaxClock == 2

\* a Python None (a select that finds no row, an omitted argument)
None == -1

\* retrieveFilteredDataRecords: values longer than this are simplified on request
SIMPLIFY_LEN == 500

\* settings.MAX_K_RECORDS
MAX_K_RECORDS == 500

\* sc-test-init.py: CAMPAIGN_DURATION_DAYS
CAMPAIGN_DURATION_DAYS == 30

(***************************************************************************)
(* Identifiers.  get_next_id hands out 0, 1, 2, ... so the rows of a table *)
(* have the ids 0..n-1; the id n is one that resolves to no row.           *)
(***************************************************************************)
Users == 0 .. (NumUsers - 1)
UserIds == 0 .. NumUsers
Campaigns == {0}
CampaignIds == {0, 1}
Threads == 1 .. NumThreads
DataSources == 0 .. (NumDataSources - 1)
Timestamps == 1 .. MaxTimestamp

\* "et"."user"."sessionKey" of each user row
sessionKey == [u \in Users |-> u]

VARIABLES
    participantStats,   \* rows of "stats"."campaignParticipantStats", by primary key <<userId, campaignId>>
    data,               \* tables of keyspace "data": <<campaignId, userId>> -> rows in primary-key order
    pc,                 \* per thread: position inside the handler it runs
    req,                \* per thread: the request being handled
    resp,               \* per thread: the response being built / returned
    lastWrite,          \* history: <<table, dataSourceId, timestamp>> -> the value most recently stored under that key
    writeOrder,         \* history: the keys <<table, dataSourceId, timestamp>> in the order of their first write
    bindCalls,          \* history: number of bindUserToCampaign calls started per pair
    bindHist,           \* history: isFirstTimeBinding of each successful bind call per pair, in completion order
    etData,             \* rows of "et"."data" of the upload server: <<user_id, timestamp>> -> value
    upload,             \* the upload server's save_data_cassandra call: its position, arguments and locals
    perDataSourceStats, \* rows of "stats"."perDataSourceStats": <<campaignId, userId, dataSourceId>> -> row
    rc,                 \* the thread of amounts_of_data_routine: its position and locals
    backup,             \* the thread of backup_routine and the export threads it starts
    user,               \* the ids of the rows of "et"."user"
    campaign,           \* rows of "et"."campaign": <<creatorId, id>> -> the other columns
    campaignResearchers,    \* rows <<campaignId, researcherId>> of "et"."campaignResearchers"
    lastHeartbeatTimestamp, \* column of campaignParticipantStats: <<userId, campaignId>> -> value, where set
    clock,              \* utils.get_timestamp_ms()
    dumps,              \* history: the exports that the download handlers have served
    boot                \* server.py main(): its position and locals, and the backend it waits for

\* the registry tables, the heartbeat column, the exports and the startup
registryVars == <<user, campaign, campaignResearchers, lastHeartbeatTimestamp, clock, dumps, boot>>

vars == <<participantStats, data, pc, req, resp, lastWrite, writeOrder, bindCalls, bindHist,
          etData, upload, perDataSourceStats, rc, backup, registryVars>>

Pairs == Users \X Campaigns

NoReq == [op |-> "none"]
NoResp == [success |-> FALSE]

\* an empty table: the rows of a table are kept as a list in primary-key order
EmptyTable == <<>>

\* no save_data_cassandra call is running
NoUpload ==
    [pc |-> "idle", user_id |-> None, timestamps_arr |-> <<>>, values_arr |-> <<>>,
     i |-> 0, cur_batch |-> <<>>, cur_size |-> 0, executed |-> <<>>, calls |-> 0]

\* start_background_jobs has not run: there is no thread of amounts_of_data_routine
RcNotStarted ==
    [pc |-> "not_started", work |-> <<>>, timestamps |-> <<>>, raised |-> "",
     seen |-> <<>>, seenPrev |-> <<>>, prev |-> <<>>]

\* backup_routine has not been started
BackupNotStarted ==
    [pc |-> "not_started",
     threads |-> [c \in Campaigns |-> <<>>],
     skipped |-> {},
     files |-> [t \in {} |-> <<>>]]

\* the columns that registerCampaign and the campaign editor set, for the
\* n-th of the settings that requests carry; a campaign ends
\* CAMPAIGN_DURATION_DAYS after it starts
CampaignColumns(n) ==
    [name |-> n, notes |-> n, configJson |-> n,
     startTimestamp |-> n, endTimestamp |-> n + CAMPAIGN_DURATION_DAYS]

\* main() has passed its wait loop and started the gRPC server on a backend
\* that holds the whole schema
BootServing ==
    [pc |-> "serving", wait_db |-> FALSE, cluster |-> TRUE, session |-> TRUE,
     init_necessary |-> FALSE, todo |-> 0, up |-> TRUE, outages |-> 0,
     schema |-> NumSchemaStatements]

\* the registry as sc-test-init.py leaves it: the users, and the campaign
\* that the first of them registered; no researcher, no heartbeat, no export
InitRegistry ==
    /\ user = Users
    /\ campaign = [key \in {<<0, c>> : c \in Campaigns} |-> CampaignColumns(0)]
    /\ campaignResearchers = {}
    /\ lastHeartbeatTimestamp = [pr \in {} |-> 0]
    /\ clock = 1
    /\ dumps = {}

\* the upload server, the statistics and the background threads before
\* anything has run, beside a registry that is set up and a server that serves
InitBackground ==
    /\ etData = [key \in {} |-> <<>>]
    /\ upload = NoUpload
    /\ perDataSourceStats = [key \in {} |-> <<>>]
    /\ rc = RcNotStarted
    /\ backup = BackupNotStarted
    /\ InitRegistry
    /\ boot = BootServing

(***************************************************************************)
(* Byte strings.  A bytes value is kept run-length encoded, as a list of   *)
(* <<count, byte>> runs with no two neighbouring runs of the same byte, so *)
(* that two values are equal exactly when their bytes are.                 *)
(***************************************************************************)
\* n copies of the byte b
Bytes(n, b) == IF n = 0 THEN <<>> ELSE << <<n, b>> >>

\* the bytes of a list of byte codes
RECURSIVE BytesOf(_)
BytesOf(s) ==
    IF s = <<>> THEN <<>>
    ELSE LET rest == BytesOf(Tail(s))
         IN  IF rest # <<>> /\ rest[1][2] = Head(s)
             THEN << <<rest[1][1] + 1, Head(s)>> >> \o Tail(rest)
             ELSE << <<1, Head(s)>> >> \o rest

\* len(value)
RECURSIVE len(_)
len(value) == IF value = <<>> THEN 0 ELSE value[1][1] + len(Tail(value))

\* str(n) for n >= 0, as ASCII codes
RECURSIVE Decimal(_)
Decimal(n) == IF n < 10 THEN <<48 + n>> ELSE Decimal(n \div 10) \o <<48 + (n % 10)>>

\* bytes(f"[{len(value)}] bytes", "utf8")
SimplifiedValue(value) ==
    BytesOf(<<91>> \o Decimal(len(value)) \o <<93, 32, 98, 121, 116, 101, 115>>)

\* the payloads that requests carry: one short, one exactly at and one just
\* above the simplification length
Payloads == {Bytes(1, 7), Bytes(SIMPLIFY_LEN, 7), Bytes(SIMPLIFY_LEN + 1, 7)}

(***************************************************************************)
(* db_mgr reads                                                            *)
(***************************************************************************)
\* the ids of the rows of "et"."campaign"
CampaignRowIds == {key[2] : key \in DOMAIN campaign}

\* get_campaign's select ... where "id"=%s allow filtering, .one(): the key
\* <<creatorId, id>> of the first row with the id
CampaignKey(campaignId) ==
    CHOOSE key \in DOMAIN campaign :
        /\ key[2] = campaignId
        /\ \A other \in DOMAIN campaign : other[2] = campaignId => key[1] <= other[1]

\* "et"."campaign"."creatorId" of the row that get_campaign returns
creatorId == [c \in CampaignRowIds |-> CampaignKey(c)[1]]

\* get_user(user_id=...) / get_user(email=...): the row or None
get_user(userId) == IF userId \in user THEN userId ELSE None

\* get_campaign(campaign_id=...): the row or None
get_campaign(campaignId) == IF campaignId \in CampaignRowIds THEN campaignId ELSE None

\* get_campaign(campaign_id=..., db_researcher_user=...): the campaign, if the
\* user created it or is one of its researchers; with no user, the campaign
get_campaign_of_researcher(campaignId, db_researcher_user) ==
    IF db_researcher_user = None
    THEN get_campaign(campaignId)
    ELSE IF /\ campaignId \in CampaignRowIds
            /\ \/ creatorId[campaignId] = db_researcher_user
               \/ <<campaignId, db_researcher_user>> \in campaignResearchers
    THEN campaignId ELSE None

\* get_data_source(data_source_id=...): the row or None
get_data_source(dataSourceId) == IF dataSourceId \in DataSources THEN dataSourceId ELSE None

\* variant: the count compared with 1 instead of 0
user_is_bound_to_campaign_gt_one(stats, db_user, db_campaign) ==
    Cardinality({r \in stats : r[1] = db_user /\ r[2] = db_campaign}) > 1

\* user_is_bound_to_campaign: count(*) > 0 over the rows of the pair
user_is_bound_to_campaign(stats, db_user, db_campaign) ==
    Cardinality({r \in stats : r[1] = db_user /\ r[2] = db_campaign}) > 0

\* the rows of a set of user ids as a list, in ascending id order (the order
\* in which a select hands out the rows of a table is fixed by the table)
RECURSIVE RowsInOrder(_)
RowsInOrder(S) ==
    IF S = {} THEN <<>>
    ELSE LET m == CHOOSE x \in S : \A y \in S : x <= y
         IN  <<m>> \o RowsInOrder(S \ {m})

\* variant: the select filters on the "userId" column instead of "campaignId"
get_campaign_participants_by_user_column(stats, db_campaign) ==
    LET rows == RowsInOrder({r[1] : r \in {x \in stats : x[1] = db_campaign}})
    IN  SelectSeq(rows, LAMBDA userId : get_user(userId) # None)

\* get_campaign_participants: the users of the rows of the campaign, skipping
\* the rows whose user no longer resolves
get_campaign_participants(stats, db_campaign) ==
    LET rows == RowsInOrder({r[1] : r \in {x \in stats : x[2] = db_campaign}})
    IN  SelectSeq(rows, LAMBDA userId : get_user(userId) # None)

\* the table "data"."cmp{c}_usr{u}"
TableName(db_campaign, db_user) == <<db_campaign, db_user>>

(***************************************************************************)
(* db_mgr data storage.  A data table is created with                      *)
(* primary key ("dataSourceId", "timestamp"): it holds one row per key,    *)
(* and an insert of a key that is present replaces the row.                *)
(***************************************************************************)
\* the order of the primary key
KeyLess(a, b) ==
    \/ a.dataSourceId < b.dataSourceId
    \/ a.dataSourceId = b.dataSourceId /\ a.timestamp < b.timestamp

\* variant: an insert of a key that is present is dropped
\* ("on conflict do nothing")
store_data_record_keep_first(rows, db_data_source, timestamp, value) ==
    LET row == [dataSourceId |-> db_data_source, timestamp |-> timestamp, value |-> value]
    IN  IF \E i \in 1 .. Len(rows) : ~ KeyLess(rows[i], row) /\ ~ KeyLess(row, rows[i])
        THEN rows
        ELSE SelectSeq(rows, LAMBDA r : KeyLess(r, row)) \o <<row>>
                \o SelectSeq(rows, LAMBDA r : KeyLess(row, r))

\* store_data_record: insert into "data"."cmp{c}_usr{u}"
store_data_record(rows, db_data_source, timestamp, value) ==
    LET row == [dataSourceId |-> db_data_source, timestamp |-> timestamp, value |-> value]
    IN  SelectSeq(rows, LAMBDA r : KeyLess(r, row)) \o <<row>>
            \o SelectSeq(rows, LAMBDA r : KeyLess(row, r))

\* store_data_records: the records of the three lists, zipped, are stored in
\* list order; a record whose data source does not resolve is skipped
RECURSIVE store_data_records(_, _, _, _)
store_data_records(rows, timestamp_list, data_source_id_list, value_list) ==
    IF timestamp_list = <<>> \/ data_source_id_list = <<>> \/ value_list = <<>>
    THEN rows
    ELSE LET db_data_source == get_data_source(Head(data_source_id_list))
             stored == IF db_data_source = None THEN rows
                       ELSE store_data_record(rows, db_data_source,
                                              Head(timestamp_list), Head(value_list))
         IN  store_data_records(stored, Tail(timestamp_list),
                                Tail(data_source_id_list), Tail(value_list))

\* variant: the lower bound is exclusive
get_next_k_data_records_exclusive(rows, from_timestamp, db_data_source, k) ==
    LET sel == SortSeq(SelectSeq(rows, LAMBDA r : r.timestamp > from_timestamp
                                                  /\ r.dataSourceId = db_data_source),
                       LAMBDA a, b : a.timestamp < b.timestamp)
    IN  SubSeq(sel, 1, IF k < Len(sel) THEN k ELSE Len(sel))

\* variant: the select has no limit
get_next_k_data_records_unlimited(rows, from_timestamp, db_data_source, k) ==
    SortSeq(SelectSeq(rows, LAMBDA r : r.timestamp >= from_timestamp
                                       /\ r.dataSourceId = db_data_source),
            LAMBDA a, b : a.timestamp < b.timestamp)

\* get_next_k_data_records: where "timestamp">=%s and "dataSourceId"=%s
\* order by "timestamp" asc limit {k}
get_next_k_data_records(rows, from_timestamp, db_data_source, k) ==
    LET sel == SortSeq(SelectSeq(rows, LAMBDA r : r.timestamp >= from_timestamp
                                                  /\ r.dataSourceId = db_data_source),
                       LAMBDA a, b : a.timestamp < b.timestamp)
    IN  SubSeq(sel, 1, IF k < Len(sel) THEN k ELSE Len(sel))

\* variant: the upper bound is inclusive
get_filtered_data_records_inclusive(rows, db_data_source, from_timestamp, till_timestamp) ==
    LET ofSource == SelectSeq(rows, LAMBDA r : r.dataSourceId = db_data_source)
        sel == IF from_timestamp # None /\ till_timestamp # None
               THEN SelectSeq(ofSource, LAMBDA r : r.timestamp >= from_timestamp
                                                   /\ r.timestamp <= till_timestamp)
               ELSE IF from_timestamp # None
               THEN SelectSeq(ofSource, LAMBDA r : r.timestamp >= from_timestamp)
               ELSE IF till_timestamp # None
               THEN SelectSeq(ofSource, LAMBDA r : r.timestamp <= till_timestamp)
               ELSE ofSource
    IN  SortSeq(sel, LAMBDA a, b : a.timestamp < b.timestamp)

\* get_filtered_data_records: the four selects, by the bounds that are given
get_filtered_data_records(rows, db_data_source, from_timestamp, till_timestamp) ==
    LET ofSource == SelectSeq(rows, LAMBDA r : r.dataSourceId = db_data_source)
        sel == IF from_timestamp # None /\ till_timestamp # None
               THEN SelectSeq(ofSource, LAMBDA r : r.timestamp >= from_timestamp
                                                   /\ r.timestamp < till_timestamp)
               ELSE IF from_timestamp # None
               THEN SelectSeq(ofSource, LAMBDA r : r.timestamp >= from_timestamp)
               ELSE IF till_timestamp # None
               THEN SelectSeq(ofSource, LAMBDA r : r.timestamp < till_timestamp)
               ELSE ofSource
    IN  SortSeq(sel, LAMBDA a, b : a.timestamp < b.timestamp)

\* the column c of a list of rows
Column(rows, c) == [i \in 1 .. Len(rows) |-> rows[i][c]]

\* history: the writes of a batch, in list order, recorded as the most recent
\* write of their keys
RECURSIVE LogWrites(_, _, _, _, _)
LogWrites(log, t, timestamp_list, data_source_id_list, value_list) ==
    IF timestamp_list = <<>> \/ data_source_id_list = <<>> \/ value_list = <<>>
    THEN log
    ELSE LogWrites(IF Head(data_source_id_list) \in DataSources
                   THEN (<<t, Head(data_source_id_list), Head(timestamp_list)>>
                            :> Head(value_list)) @@ log
                   ELSE log,
                   t, Tail(timestamp_list), Tail(data_source_id_list), Tail(value_list))

\* history: the keys of a batch that were never written before, appended in
\* list order
RECURSIVE LogOrder(_, _, _, _)
LogOrder(order, t, timestamp_list, data_source_id_list) ==
    IF timestamp_list = <<>> \/ data_source_id_list = <<>>
    THEN order
    ELSE LET key == <<t, Head(data_source_id_list), Head(timestamp_list)>>
             seen == \E i \in 1 .. Len(order) : order[i] = key
         IN  LogOrder(IF Head(data_source_id_list) \in DataSources /\ ~ seen
                      THEN Append(order, key) ELSE order,
                      t, Tail(timestamp_list), Tail(data_source_id_list))

Init ==
    /\ participantStats = {}
    /\ data = [t \in {} |-> EmptyTable]
    /\ lastWrite = [k \in {} |-> <<>>]
    /\ writeOrder = <<>>
    /\ pc = [p \in Threads |-> "idle"]
    /\ req = [p \in Threads |-> NoReq]
    /\ resp = [p \in Threads |-> NoResp]
    /\ bindCalls = [pr \in Pairs |-> 0]
    /\ bindHist = [pr \in Pairs |-> <<>>]
    /\ InitBackground

(***************************************************************************)
(* ETServiceServicer.bindUserToCampaign                                    *)
(***************************************************************************)
\* the handler up to and including the check of bind_participant_to_campaign
BindCheck(p, request) ==
    /\ pc[p] = "idle"
    /\ LET db_user == get_user(request.userId)
           db_campaign == get_campaign(request.campaignId)
       IN  IF db_user = None \/ db_campaign = None
           THEN /\ pc' = [pc EXCEPT ![p] = "done"]
                /\ resp' = [resp EXCEPT ![p] = [success |-> FALSE, isFirstTimeBinding |-> FALSE]]
                /\ UNCHANGED <<bindCalls, bindHist>>
           ELSE /\ bindCalls[<<db_user, db_campaign>>] < MaxBindCalls
                /\ bindCalls' = [bindCalls EXCEPT ![<<db_user, db_campaign>>] = @ + 1]
                /\ IF user_is_bound_to_campaign(participantStats, db_user, db_campaign)
                   THEN /\ pc' = [pc EXCEPT ![p] = "done"]
                        /\ resp' = [resp EXCEPT ![p] = [success |-> TRUE, isFirstTimeBinding |-> FALSE]]
                        /\ bindHist' = [bindHist EXCEPT ![<<db_user, db_campaign>>] = Append(@, FALSE)]
                   ELSE /\ pc' = [pc EXCEPT ![p] = "bind_insert"]
                        /\ UNCHANGED <<resp, bindHist>>
    /\ req' = [req EXCEPT ![p] = request]
    /\ UNCHANGED <<participantStats, data, lastWrite, writeOrder>>

\* insert into "stats"."campaignParticipantStats"
BindInsert(p) ==
    /\ pc[p] = "bind_insert"
    /\ participantStats' = participantStats \cup {<<req[p].userId, req[p].campaignId>>}
    /\ pc' = [pc EXCEPT ![p] = "bind_create"]
    /\ UNCHANGED <<data, lastWrite, writeOrder, req, resp, bindCalls, bindHist>>
    /\ UNCHANGED <<etData, upload, perDataSourceStats, rc, backup, registryVars>>

\* create table if not exists "data"."cmp{c}_usr{u}"; return True
BindCreateTable(p) ==
    /\ pc[p] = "bind_create"
    /\ LET t == TableName(req[p].campaignId, req[p].userId)
       IN  data' = IF t \in DOMAIN data THEN data ELSE data @@ (t :> EmptyTable)
    /\ pc' = [pc EXCEPT ![p] = "done"]
    /\ resp' = [resp EXCEPT ![p] = [success |-> TRUE, isFirstTimeBinding |-> TRUE]]
    /\ bindHist' = [bindHist EXCEPT ![<<req[p].userId, req[p].campaignId>>] = Append(@, TRUE)]
    /\ UNCHANGED <<participantStats, lastWrite, writeOrder, req, bindCalls>>
    /\ UNCHANGED <<etData, upload, perDataSourceStats, rc, backup, registryVars>>

(***************************************************************************)
(* ETServiceServicer.retrieveParticipants                                  *)
(***************************************************************************)
retrieveParticipants(p, request) ==
    /\ pc[p] = "idle"
    /\ LET db_user == get_user(request.userId)
           db_campaign == get_campaign_of_researcher(request.campaignId, db_user)
       IN  resp' = [resp EXCEPT ![p] =
                 IF db_user # None /\ db_campaign # None
                    /\ sessionKey[db_user] = request.sessionKey
                 THEN [success |-> TRUE,
                       userId |-> get_campaign_participants(participantStats, db_campaign)]
                 ELSE [success |-> FALSE, userId |-> <<>>]]
    /\ req' = [req EXCEPT ![p] = request]
    /\ pc' = [pc EXCEPT ![p] = "done"]
    /\ UNCHANGED <<participantStats, data, lastWrite, writeOrder, bindCalls, bindHist>>

(***************************************************************************)
(* ETServiceServicer.submitDataRecord                                      *)
(***************************************************************************)
\* variant: the response starts from success = True
Failure_starts_true == [success |-> TRUE, raised |-> ""]

\* grpc_response.success = False, the response a handler starts from
Failure == [success |-> FALSE, raised |-> ""]

\* an exception leaves the handler: the call ends with an error and no response
Raised(exception) == [success |-> FALSE, raised |-> exception]

submitDataRecord(p, request) ==
    /\ pc[p] = "idle"
    /\ LET db_user == get_user(request.userId)
           db_campaign == get_campaign(request.campaignId)
           db_data_source == get_data_source(request.dataSource)
           t == TableName(db_campaign, db_user)
       IN  IF ~ (/\ None \notin {db_user, db_campaign, db_data_source}
                 /\ user_is_bound_to_campaign(participantStats, db_user, db_campaign))
           THEN /\ resp' = [resp EXCEPT ![p] = Failure]
                /\ UNCHANGED <<data, lastWrite, writeOrder>>
           ELSE IF t \notin DOMAIN data
           THEN \* the insert names a table that does not exist
                /\ resp' = [resp EXCEPT ![p] = Raised("InvalidRequest")]
                /\ UNCHANGED <<data, lastWrite, writeOrder>>
           ELSE /\ \/ <<t, db_data_source, request.timestamp>> \in DOMAIN lastWrite
                   \/ Cardinality(DOMAIN lastWrite) < MaxRows
                /\ data' = [data EXCEPT ![t] =
                              store_data_record(@, db_data_source, request.timestamp,
                                                request.value)]
                /\ lastWrite' = (<<t, db_data_source, request.timestamp>> :> request.value)
                                    @@ lastWrite
                /\ writeOrder' = LogOrder(writeOrder, t, <<request.timestamp>>,
                                          <<db_data_source>>)
                /\ resp' = [resp EXCEPT ![p] = [success |-> TRUE, raised |-> ""]]
    /\ req' = [req EXCEPT ![p] = request]
    /\ pc' = [pc EXCEPT ![p] = "done"]
    /\ UNCHANGED <<participantStats, bindCalls, bindHist>>

(***************************************************************************)
(* ETServiceServicer.submitDataRecords                                     *)
(***************************************************************************)
submitDataRecords(p, request) ==
    /\ pc[p] = "idle"
    /\ LET db_user == get_user(request.userId)
           db_campaign == get_campaign(request.campaignId)
           t == TableName(db_campaign, db_user)
           log == LogWrites(lastWrite, t, request.timestamp, request.dataSource,
                            request.value)
           stores == \E i \in 1 .. Len(request.timestamp) :
                        request.dataSource[i] \in DataSources
       IN  IF ~ (/\ None \notin {db_user, db_campaign}
                 /\ user_is_bound_to_campaign(participantStats, db_user, db_campaign)
                 /\ Len(request.timestamp) > 0)
           THEN /\ resp' = [resp EXCEPT ![p] = Failure]
                /\ UNCHANGED <<data, lastWrite, writeOrder>>
           ELSE IF t \notin DOMAIN data /\ stores
           THEN \* the first insert names a table that does not exist
                /\ resp' = [resp EXCEPT ![p] = Raised("InvalidRequest")]
                /\ UNCHANGED <<data, lastWrite, writeOrder>>
           ELSE IF t \notin DOMAIN data
           THEN \* no record of the batch resolves to a data source: nothing is inserted
                /\ resp' = [resp EXCEPT ![p] = [success |-> TRUE, raised |-> ""]]
                /\ UNCHANGED <<data, lastWrite, writeOrder>>
           ELSE /\ Cardinality(DOMAIN log) <= MaxRows
                /\ data' = [data EXCEPT ![t] =
                              store_data_records(@, request.timestamp, request.dataSource,
                                                 request.value)]
                /\ lastWrite' = log
                /\ writeOrder' = LogOrder(writeOrder, t, request.timestamp,
                                          request.dataSource)
                /\ resp' = [resp EXCEPT ![p] = [success |-> TRUE, raised |-> ""]]
    /\ req' = [req EXCEPT ![p] = request]
    /\ pc' = [pc EXCEPT ![p] = "done"]
    /\ UNCHANGED <<participantStats, bindCalls, bindHist>>

(***************************************************************************)
(* ETServiceServicer.retrieveFilteredDataRecords                           *)
(***************************************************************************)
\* variant: the value is simplified whatever the request asks
FilteredValue_ignoring_flag(value, simplifyIfTooLarge) ==
    IF len(value) > SIMPLIFY_LEN THEN SimplifiedValue(value) ELSE value

\* variant: a value of exactly the simplification length is simplified too
FilteredValue_threshold_inclusive(value, simplifyIfTooLarge) ==
    IF simplifyIfTooLarge /\ len(value) >= SIMPLIFY_LEN THEN SimplifiedValue(value) ELSE value

\* the value put into the response for a record
FilteredValue(value, simplifyIfTooLarge) ==
    IF simplifyIfTooLarge /\ len(value) > SIMPLIFY_LEN THEN SimplifiedValue(value) ELSE value

NoRecords == [dataSource |-> <<>>, timestamp |-> <<>>, value |-> <<>>]

retrieveFilteredDataRecords(p, request) ==
    /\ pc[p] = "idle"
    /\ LET db_user == get_user(request.userId)
           db_target_user == get_user(request.targetEmail)
           db_target_campaign == get_campaign(request.targetCampaignId)
           db_data_source == get_data_source(request.targetDataSourceId)
           t == TableName(db_target_campaign, db_target_user)
           data_records == get_filtered_data_records(data[t], db_data_source,
                               request.fromTimestamp, request.tillTimestamp)
       IN  resp' = [resp EXCEPT ![p] =
                 IF ~ (/\ None \notin {db_user, db_target_user, db_target_campaign,
                                       db_data_source}
                       /\ user_is_bound_to_campaign(participantStats, db_target_user,
                                                    db_target_campaign))
                 THEN Failure @@ NoRecords
                 ELSE IF t \notin DOMAIN data
                 THEN Raised("InvalidRequest") @@ NoRecords
                 ELSE [success |-> TRUE, raised |-> "",
                       dataSource |-> Column(data_records, "dataSourceId"),
                       timestamp |-> Column(data_records, "timestamp"),
                       value |-> [i \in 1 .. Len(data_records) |->
                                    FilteredValue(data_records[i].value,
                                                  request.simplifyIfTooLarge)]]]
    /\ req' = [req EXCEPT ![p] = request]
    /\ pc' = [pc EXCEPT ![p] = "done"]
    /\ UNCHANGED <<participantStats, data, lastWrite, writeOrder, bindCalls, bindHist>>

\* the handler returns its response; the worker thread is free again
Return(p) ==
    /\ pc[p] = "done"
    /\ pc' = [pc EXCEPT ![p] = "idle"]
    /\ req' = [req EXCEPT ![p] = NoReq]
    /\ resp' = [resp EXCEPT ![p] = NoResp]
    /\ UNCHANGED <<participantStats, data, lastWrite, writeOrder, bindCalls, bindHist>>
    /\ UNCHANGED <<etData, upload, perDataSourceStats, rc, backup, registryVars>>

(***************************************************************************)
(* The requests that the handlers are driven with.  A request names rows   *)
(* that exist, or it names one row that does not.                          *)
(***************************************************************************)
Lists(S, n) == [1 .. n -> S]

BindRequests ==
    {[op |-> "bindUserToCampaign", userId |-> u, campaignId |-> c]
        : u \in UserIds, c \in CampaignIds}

ParticipantsRequests ==
    {[op |-> "retrieveParticipants", userId |-> u, sessionKey |-> k, campaignId |-> c]
        : u \in UserIds, k \in Users, c \in CampaignIds}

SubmitRequest(u, c, d, ts, v) ==
    [op |-> "submitDataRecord", userId |-> u, campaignId |-> c, dataSource |-> d,
     timestamp |-> ts, value |-> v]

SubmitRequests ==
    {SubmitRequest(u, 0, d, ts, v)
        : u \in Users, d \in DataSources, ts \in Timestamps, v \in Payloads}
    \cup {SubmitRequest(NumUsers, 0, 0, 1, Bytes(1, 7)),
          SubmitRequest(0, 1, 0, 1, Bytes(1, 7)),
          SubmitRequest(0, 0, NumDataSources, 1, Bytes(1, 7))}

\* a batch: the i-th record of a batch carries i + SIMPLIFY_LEN - 1 bytes
BatchValues(n) == [i \in 1 .. n |-> Bytes(i + SIMPLIFY_LEN - 1, 7)]

Batches ==
    UNION {Lists(Timestamps, n) \X Lists({0, NumDataSources}, n) \X {BatchValues(n)}
           : n \in 0 .. MaxBatch}

SubmitBatchRequest(u, c, b) ==
    [op |-> "submitDataRecords", userId |-> u, campaignId |-> c, timestamp |-> b[1],
     dataSource |-> b[2], value |-> b[3]]

SubmitBatchRequests ==
    {SubmitBatchRequest(u, 0, b) : u \in Users, b \in Batches}
    \cup {SubmitBatchRequest(NumUsers, 0, <<<<1>>, <<0>>, BatchValues(1)>>),
          SubmitBatchRequest(0, 1, <<<<1>>, <<0>>, BatchValues(1)>>)}

FilteredRequest(u, tu, c, d, from, till, s) ==
    [op |-> "retrieveFilteredDataRecords", userId |-> u, targetEmail |-> tu,
     targetCampaignId |-> c, targetDataSourceId |-> d, fromTimestamp |-> from,
     tillTimestamp |-> till, simplifyIfTooLarge |-> s]

\* what an integer field reads as when the request leaves it out
Omitted == 0

FilteredRequests ==
    {FilteredRequest(0, tu, 0, d, from, till, s)
        : tu \in Users, d \in DataSources, from \in {Omitted} \cup Timestamps,
          till \in {Omitted} \cup (1 .. (MaxTimestamp + 1)), s \in BOOLEAN}
    \cup {FilteredRequest(NumUsers, 0, 0, 0, 0, MaxTimestamp + 1, FALSE),
          FilteredRequest(0, NumUsers, 0, 0, 0, MaxTimestamp + 1, FALSE),
          FilteredRequest(0, 0, 1, 0, 0, MaxTimestamp + 1, FALSE),
          FilteredRequest(0, 0, 0, NumDataSources, 0, MaxTimestamp + 1, FALSE)}

\* a free worker thread takes a request
BindUserToCampaign(p) ==
    /\ pc[p] = "idle"
    /\ \E request \in BindRequests : BindCheck(p, request)
    /\ UNCHANGED <<etData, upload, perDataSourceStats, rc, backup, registryVars>>

RetrieveParticipants(p) ==
    /\ pc[p] = "idle"
    /\ \E request \in ParticipantsRequests : retrieveParticipants(p, request)
    /\ UNCHANGED <<etData, upload, perDataSourceStats, rc, backup, registryVars>>

SubmitDataRecord(p) ==
    /\ pc[p] = "idle"
    /\ \E request \in SubmitRequests : submitDataRecord(p, request)
    /\ UNCHANGED <<etData, upload, perDataSourceStats, rc, backup, registryVars>>

SubmitDataRecords(p) ==
    /\ pc[p] = "idle"
    /\ \E request \in SubmitBatchRequests : submitDataRecords(p, request)
    /\ UNCHANGED <<etData, upload, perDataSourceStats, rc, backup, registryVars>>

RetrieveFilteredDataRecords(p) ==
    /\ pc[p] = "idle"
    /\ \E request \in FilteredRequests : retrieveFilteredDataRecords(p, request)
    /\ UNCHANGED <<etData, upload, perDataSourceStats, rc, backup, registryVars>>

(***************************************************************************)
(* Binding under concurrency: the worker threads bind and list             *)
(* participants, in any interleaving.                                      *)
(***************************************************************************)
NextBind ==
    \E p \in Threads :
        \/ BindUserToCampaign(p)
        \/ BindInsert(p)
        \/ BindCreateTable(p)
        \/ RetrieveParticipants(p)
        \/ Return(p)

SpecBind == Init /\ [][NextBind]_vars

(***************************************************************************)
(* The gateway, one request at a time: binding, ingestion and range reads. *)
(***************************************************************************)
Next ==
    \E p \in {1} :
        \/ BindUserToCampaign(p)
        \/ BindInsert(p)
        \/ BindCreateTable(p)
        \/ SubmitDataRecord(p)
        \/ SubmitDataRecords(p)
        \/ RetrieveFilteredDataRecords(p)
        \/ Return(p)

Spec == Init /\ [][Next]_vars

(***************************************************************************)
(* ETServiceServicer.retrieveKNextDataRecords                              *)
(***************************************************************************)
\* db_target_user["id"]: get_user returns a row of the driver's default row
\* factory, a named tuple, and a named tuple subscripted by a string raises
RowSubscript(row, column) == [raises |-> "TypeError"]

\* variant: the handler reads the records of whatever table the request
\* names, with no check of the caller or of the target
retrieveKNextDataRecords_unchecked(p, request) ==
    /\ pc[p] = "idle"
    /\ LET t == TableName(request.targetCampaignId, request.targetEmail)
           data_records == get_next_k_data_records(data[t], request.fromTimestamp,
                                                   request.targetDataSourceId, request.k)
       IN  resp' = [resp EXCEPT ![p] =
                 IF t \notin DOMAIN data \/ request.k <= 0
                 THEN Raised("InvalidRequest") @@ [timestamp |-> <<>>, value |-> <<>>]
                 ELSE [success |-> TRUE, raised |-> "",
                       timestamp |-> Column(data_records, "timestamp"),
                       value |-> Column(data_records, "value")]]
    /\ req' = [req EXCEPT ![p] = request]
    /\ pc' = [pc EXCEPT ![p] = "done"]
    /\ UNCHANGED <<participantStats, data, lastWrite, writeOrder, bindCalls, bindHist>>

retrieveKNextDataRecords(p, request) ==
    /\ pc[p] = "idle"
    /\ LET db_user == get_user(request.userId)
           db_target_user == get_user(request.targetEmail)
           db_target_campaign == get_campaign(request.targetCampaignId)
           db_data_source == get_data_source(request.targetDataSourceId)
           t == TableName(db_target_campaign, db_target_user)
           \* the conditions of the handler, evaluated left to right
           callerAllowed ==
               /\ None \notin {db_user, db_target_user, db_target_campaign, db_data_source}
               /\ sessionKey[db_user] = request.sessionKey
               /\ request.k <= MAX_K_RECORDS
               /\ \/ db_user = creatorId[db_target_campaign]
                  \/ user_is_bound_to_campaign(participantStats, db_user, db_target_campaign)
           targetId == RowSubscript(db_target_user, "id")
           data_records == get_next_k_data_records(data[t], request.fromTimestamp,
                                                   db_data_source, request.k)
       IN  resp' = [resp EXCEPT ![p] =
                 IF ~ callerAllowed
                 THEN Failure @@ [timestamp |-> <<>>, value |-> <<>>]
                 ELSE IF "raises" \in DOMAIN targetId
                 THEN Raised(targetId.raises) @@ [timestamp |-> <<>>, value |-> <<>>]
                 ELSE IF ~ (\/ targetId.value = creatorId[db_target_campaign]
                            \/ user_is_bound_to_campaign(participantStats, db_target_user,
                                                         db_target_campaign))
                 THEN Failure @@ [timestamp |-> <<>>, value |-> <<>>]
                 ELSE IF t \notin DOMAIN data \/ request.k <= 0
                 THEN Raised("InvalidRequest") @@ [timestamp |-> <<>>, value |-> <<>>]
                 ELSE [success |-> TRUE, raised |-> "",
                       timestamp |-> Column(data_records, "timestamp"),
                       value |-> Column(data_records, "value")]]
    /\ req' = [req EXCEPT ![p] = request]
    /\ pc' = [pc EXCEPT ![p] = "done"]
    /\ UNCHANGED <<participantStats, data, lastWrite, writeOrder, bindCalls, bindHist>>

(***************************************************************************)
(* Dashboard: views.handle_raw_samples_list                                *)
(***************************************************************************)
\* a number below 1000 as three digits
ThreeDigits(n) == <<48 + (n \div 100), 48 + ((n \div 10) % 10), 48 + (n % 10)>>

\* f"{n:,}": the decimal digits in groups of three, separated by commas
RECURSIVE GroupedDecimal(_)
GroupedDecimal(n) ==
    IF n < 1000 THEN Decimal(n)
    ELSE GroupedDecimal(n \div 1000) \o <<44>> \o ThreeDigits(n % 1000)

\* the text shown for a value: f"[ {value_len:,} byte data record ]" for a
\* value above 5 KB or one that is not UTF-8, the decoded text otherwise
\* (a value of ASCII bytes decodes to the text of the same codes)
RenderedValue(value) ==
    IF len(value) > 5 * 1024 \/ (\E i \in 1 .. Len(value) : value[i][2] >= 128)
    THEN BytesOf(<<91, 32>> \o GroupedDecimal(len(value))
                 \o <<32, 98, 121, 116, 101, 32, 100, 97, 116, 97, 32,
                      114, 101, 99, 111, 114, 100, 32, 93>>)
    ELSE value

\* redirect(to="campaigns-list")
Redirect == [success |-> FALSE, raised |-> "", records |-> <<>>]

handle_raw_samples_list(p, request) ==
    /\ pc[p] = "idle"
    /\ LET db_user == get_user(request.userId)
           db_campaign == get_campaign_of_researcher(request.campaignId, db_user)
           db_participant_user == get_user(request.email)
           db_data_source == get_data_source(request.dataSourceId)
           t == TableName(db_campaign, db_participant_user)
           data_records == get_next_k_data_records(data[t], request.fromTimestamp,
                                                   db_data_source, 500)
       IN  resp' = [resp EXCEPT ![p] =
                 IF ~ (/\ db_user # None
                       /\ db_campaign # None
                       /\ db_participant_user # None
                       /\ user_is_bound_to_campaign(participantStats, db_participant_user,
                                                    db_campaign)
                       /\ db_data_source # None)
                 THEN Redirect
                 ELSE IF t \notin DOMAIN data
                 THEN Raised("InvalidRequest") @@ [records |-> <<>>]
                 ELSE [success |-> TRUE, raised |-> "",
                       records |-> [i \in 1 .. Len(data_records) |->
                                      [row |-> i,
                                       timestamp |-> data_records[i].timestamp,
                                       value |-> RenderedValue(data_records[i].value)]]]]
    /\ req' = [req EXCEPT ![p] = request]
    /\ pc' = [pc EXCEPT ![p] = "done"]
    /\ UNCHANGED <<participantStats, data, lastWrite, writeOrder, bindCalls, bindHist>>

(***************************************************************************)
(* The storage reads applied to the tables that the handlers have written. *)
(***************************************************************************)
\* db_mgr.get_next_k_data_records on a table, for a limit that CQL accepts
\* (limit must be strictly positive)
ReadKNext(p) ==
    /\ pc[p] = "idle"
    /\ \E t \in DOMAIN data, d \in DataSources, from \in 0 .. (MaxTimestamp + 1),
          k \in 1 .. (MaxRows + 1) :
          /\ req' = [req EXCEPT ![p] = [op |-> "get_next_k_data_records", table |-> t,
                                        dataSource |-> d, fromTimestamp |-> from, k |-> k]]
          /\ resp' = [resp EXCEPT ![p] =
                        [success |-> TRUE, raised |-> "",
                         records |-> get_next_k_data_records(data[t], from, d, k)]]
    /\ pc' = [pc EXCEPT ![p] = "done"]
    /\ UNCHANGED <<participantStats, data, lastWrite, writeOrder, bindCalls, bindHist>>
    /\ UNCHANGED <<etData, upload, perDataSourceStats, rc, backup, registryVars>>

\* db_mgr.get_filtered_data_records on a table; either bound may be None
ReadRange(p) ==
    /\ pc[p] = "idle"
    /\ \E t \in DOMAIN data, d \in DataSources, from \in {None} \cup (0 .. MaxTimestamp),
          till \in {None} \cup (1 .. (MaxTimestamp + 1)) :
          /\ req' = [req EXCEPT ![p] = [op |-> "get_filtered_data_records", table |-> t,
                                        dataSource |-> d, fromTimestamp |-> from,
                                        tillTimestamp |-> till]]
          /\ resp' = [resp EXCEPT ![p] =
                        [success |-> TRUE, raised |-> "",
                         records |-> get_filtered_data_records(data[t], d, from, till)]]
    /\ pc' = [pc EXCEPT ![p] = "done"]
    /\ UNCHANGED <<participantStats, data, lastWrite, writeOrder, bindCalls, bindHist>>
    /\ UNCHANGED <<etData, upload, perDataSourceStats, rc, backup, registryVars>>

NextStore ==
    \E p \in {1} :
        \/ BindUserToCampaign(p)
        \/ BindInsert(p)
        \/ BindCreateTable(p)
        \/ SubmitDataRecord(p)
        \/ ReadKNext(p)
        \/ ReadRange(p)
        \/ Return(p)

SpecStore == Init /\ [][NextStore]_vars

(***************************************************************************)
(* Reads of a large table: participant 1 is bound to the campaign of user  *)
(* 0 and has submitted one record per timestamp 1..n, for n just below, at *)
(* and just above MAX_K_RECORDS.                                           *)
(***************************************************************************)
BulkSizes == {MAX_K_RECORDS - 1, MAX_K_RECORDS, MAX_K_RECORDS + 1}

BulkTable == TableName(0, 1)

InitBulk ==
    \E n \in BulkSizes :
        /\ participantStats = {<<1, 0>>}
        /\ data = (BulkTable :> [i \in 1 .. n |->
                       [dataSourceId |-> 0, timestamp |-> i, value |-> Bytes(1, 7)]])
        /\ lastWrite = [key \in {<<BulkTable, 0, i>> : i \in 1 .. n} |-> Bytes(1, 7)]
        /\ writeOrder = [i \in 1 .. n |-> <<BulkTable, 0, i>>]
        /\ pc = [p \in Threads |-> "idle"]
        /\ req = [p \in Threads |-> NoReq]
        /\ resp = [p \in Threads |-> NoResp]
        /\ bindCalls = [pr \in Pairs |-> IF pr = <<1, 0>> THEN 1 ELSE 0]
        /\ bindHist = [pr \in Pairs |-> IF pr = <<1, 0>> THEN <<TRUE>> ELSE <<>>]
        /\ InitBackground

KNextRequest(u, key, tu, c, d, from, k) ==
    [op |-> "retrieveKNextDataRecords", userId |-> u, sessionKey |-> key,
     targetEmail |-> tu, targetCampaignId |-> c, targetDataSourceId |-> d,
     fromTimestamp |-> from, k |-> k]

KNextRequests ==
    {KNextRequest(u, key, tu, 0, 0, from, k)
        : u \in Users, key \in Users, tu \in Users, from \in {0, 2},
          k \in {1, MAX_K_RECORDS, MAX_K_RECORDS + 1}}
    \cup {KNextRequest(NumUsers, 0, 1, 0, 0, 0, 1),
          KNextRequest(0, 0, NumUsers, 0, 0, 0, 1),
          KNextRequest(0, 0, 1, 1, 0, 0, 1),
          KNextRequest(0, 0, 1, 0, NumDataSources, 0, 1)}

RawSamplesRequest(u, c, e, d, from) ==
    [op |-> "handle_raw_samples_list", userId |-> u, campaignId |-> c, email |-> e,
     dataSourceId |-> d, fromTimestamp |-> from]

RawSamplesRequests ==
    {RawSamplesRequest(u, 0, e, d, from)
        : u \in Users, e \in Users, d \in DataSources, from \in {0, 1, 2, MAX_K_RECORDS}}
    \cup {RawSamplesRequest(NumUsers, 0, 1, 0, 0),
          RawSamplesRequest(0, 1, 1, 0, 0),
          RawSamplesRequest(0, 0, NumUsers, 0, 0),
          RawSamplesRequest(0, 0, 1, NumDataSources, 0)}

RetrieveKNextDataRecords(p) ==
    /\ pc[p] = "idle"
    /\ \E request \in KNextRequests : retrieveKNextDataRecords(p, request)
    /\ UNCHANGED <<etData, upload, perDataSourceStats, rc, backup, registryVars>>

HandleRawSamplesList(p) ==
    /\ pc[p] = "idle"
    /\ \E request \in RawSamplesRequests : handle_raw_samples_list(p, request)
    /\ UNCHANGED <<etData, upload, perDataSourceStats, rc, backup, registryVars>>

NextBulk ==
    \E p \in {1} :
        \/ RetrieveKNextDataRecords(p)
        \/ HandleRawSamplesList(p)
        \/ Return(p)

SpecBulk == InitBulk /\ [][NextBulk]_vars

(***************************************************************************)
(* The upload server: db_mgr.save_data_cassandra, called with the          *)
(* arguments that views.upload_file builds from the uploaded files.        *)
(***************************************************************************)
MaxUploads == 1
MaxFiles == 3

\* the payload size above which the batch collected so far is executed
BATCH_SIZE == 25 * 1024 * 1024

\* the sizes of the uploaded files: empty, 13 MB, 26 MB
FileSizes == {0, 13 * 1024 * 1024, 26 * 1024 * 1024}

\* variant: executing a batch replaces the rows of the table
execute_replacing_rows(table, user_id, cur_batch) ==
    [key \in {<<user_id, cur_batch[i][1]>> : i \in 1 .. Len(cur_batch)} |->
        LET last == CHOOSE i \in 1 .. Len(cur_batch) :
                        /\ cur_batch[i][1] = key[2]
                        /\ \A j \in (i + 1) .. Len(cur_batch) : cur_batch[j][1] # key[2]
        IN  cur_batch[last][2]]

\* cassandra_session.execute(cur_batch): the inserts of the batch are applied
\* together; an insert replaces the row that has its key
execute(table, user_id, cur_batch) ==
    [key \in {<<user_id, cur_batch[i][1]>> : i \in 1 .. Len(cur_batch)} |->
        LET last == CHOOSE i \in 1 .. Len(cur_batch) :
                        /\ cur_batch[i][1] = key[2]
                        /\ \A j \in (i + 1) .. Len(cur_batch) : cur_batch[j][1] # key[2]
        IN  cur_batch[last][2]] @@ table

\* upload_file reads user_id, timestamp and the files of the request and
\* calls save_data_cassandra with timestamps timestamp, timestamp + 1, ...
save_data_cassandra ==
    /\ upload.pc = "idle"
    /\ upload.calls < MaxUploads
    /\ \E user_id \in Users, timestamp \in {1}, n \in 0 .. MaxFiles :
          \E sizes \in Lists(FileSizes, n) :
              upload' = [pc |-> "loop", user_id |-> user_id,
                         timestamps_arr |-> [i \in 1 .. n |-> timestamp + (i - 1)],
                         values_arr |-> [i \in 1 .. n |-> Bytes(sizes[i], 7)],
                         i |-> 1, cur_batch |-> <<>>, cur_size |-> 0,
                         executed |-> <<>>, calls |-> upload.calls + 1]
    /\ UNCHANGED <<participantStats, data, pc, req, resp, lastWrite, writeOrder,
                   bindCalls, bindHist, etData, perDataSourceStats, rc, backup, registryVars>>

\* cassandra_session.execute(cur_batch) inside save_data_cassandra: the batch
\* is applied and the call goes on as `then`, or the driver raises (a timeout,
\* no replica available) and the exception leaves save_data_cassandra; a
\* batch that timed out may have been applied or not
SessionExecute(cur_batch, cur_size, then) ==
    \/ /\ etData' = execute(etData, upload.user_id, cur_batch)
       /\ upload' = [then EXCEPT !.executed =
                        Append(upload.executed,
                               [rows |-> cur_batch, size |-> cur_size, raised |-> FALSE])]
    \/ \E applied \in BOOLEAN :
          /\ etData' = IF applied THEN execute(etData, upload.user_id, cur_batch)
                       ELSE etData
          /\ upload' = [upload EXCEPT !.pc = "raised", !.cur_batch = cur_batch,
                                      !.cur_size = cur_size,
                                      !.executed =
                                          Append(upload.executed,
                                                 [rows |-> cur_batch, size |-> cur_size,
                                                  raised |-> TRUE])]

\* one turn of the loop over zip(timestamps_arr, values_arr)
SaveLoop ==
    /\ upload.pc = "loop"
    /\ upload.i <= Len(upload.timestamps_arr) /\ upload.i <= Len(upload.values_arr)
    /\ LET timestamp == upload.timestamps_arr[upload.i]
           value == upload.values_arr[upload.i]
           cur_batch == Append(upload.cur_batch, <<timestamp, value>>)
           cur_size == upload.cur_size + len(value)
       IN  IF cur_size > BATCH_SIZE
           THEN SessionExecute(cur_batch, cur_size,
                               [upload EXCEPT !.i = upload.i + 1, !.cur_batch = <<>>,
                                              !.cur_size = 0])
           ELSE /\ upload' = [upload EXCEPT !.i = upload.i + 1, !.cur_batch = cur_batch,
                                            !.cur_size = cur_size]
                /\ UNCHANGED etData
    /\ UNCHANGED <<participantStats, data, pc, req, resp, lastWrite, writeOrder,
                   bindCalls, bindHist, perDataSourceStats, rc, backup, registryVars>>

\* after the loop: what is left in the batch is executed if cur_size > 0
SaveLast ==
    /\ upload.pc = "loop"
    /\ ~ (upload.i <= Len(upload.timestamps_arr) /\ upload.i <= Len(upload.values_arr))
    /\ IF upload.cur_size > 0
       THEN SessionExecute(upload.cur_batch, upload.cur_size,
                           [upload EXCEPT !.pc = "done"])
       ELSE /\ upload' = [upload EXCEPT !.pc = "done"]
            /\ UNCHANGED etData
    /\ UNCHANGED <<participantStats, data, pc, req, resp, lastWrite, writeOrder,
                   bindCalls, bindHist, perDataSourceStats, rc, backup, registryVars>>

\* save_data_cassandra has returned or raised: the call is over
SaveReturn ==
    /\ upload.pc \in {"done", "raised"}
    /\ upload' = [NoUpload EXCEPT !.calls = upload.calls]
    /\ UNCHANGED <<participantStats, data, pc, req, resp, lastWrite, writeOrder,
                   bindCalls, bindHist, etData, perDataSourceStats, rc, backup, registryVars>>

(***************************************************************************)
(* ETServiceServicer.submitDataRecords when the storage raises on the      *)
(* insert of one record of the batch.                                      *)
(***************************************************************************)
Prefix(list, n) == SubSeq(list, 1, n)

\* store_data_records stores the records before the j-th one by one; the
\* insert of the j-th raises, and it may have been applied or not
submitDataRecordsInterrupted(p, request) ==
    /\ pc[p] = "idle"
    /\ LET db_user == get_user(request.userId)
           db_campaign == get_campaign(request.campaignId)
           t == TableName(db_campaign, db_user)
       IN  /\ None \notin {db_user, db_campaign}
           /\ user_is_bound_to_campaign(participantStats, db_user, db_campaign)
           /\ t \in DOMAIN data
           /\ \E j \in 1 .. Len(request.timestamp), applied \in BOOLEAN :
                 LET n == IF applied THEN j ELSE j - 1
                     log == LogWrites(lastWrite, t, Prefix(request.timestamp, n),
                                      Prefix(request.dataSource, n),
                                      Prefix(request.value, n))
                 IN  /\ get_data_source(request.dataSource[j]) # None
                     /\ Cardinality(DOMAIN log) <= MaxRows
                     /\ data' = [data EXCEPT ![t] =
                                   store_data_records(@, Prefix(request.timestamp, n),
                                                      Prefix(request.dataSource, n),
                                                      Prefix(request.value, n))]
                     /\ lastWrite' = log
                     /\ writeOrder' = LogOrder(writeOrder, t, Prefix(request.timestamp, n),
                                               Prefix(request.dataSource, n))
                     /\ resp' = [resp EXCEPT ![p] =
                                   Raised("OperationTimedOut") @@ [stored |-> j - 1]]
    /\ req' = [req EXCEPT ![p] = request]
    /\ pc' = [pc EXCEPT ![p] = "done"]
    /\ UNCHANGED <<participantStats, bindCalls, bindHist>>

\* batches of participant 0 for data source 0
InterruptedBatchRequests ==
    UNION {{SubmitBatchRequest(0, 0, <<ts, [i \in 1 .. n |-> 0], BatchValues(n)>>)
               : ts \in Lists(Timestamps, n)} : n \in 1 .. MaxBatch}

SubmitDataRecordsInterrupted(p) ==
    /\ pc[p] = "idle"
    /\ \E request \in InterruptedBatchRequests : submitDataRecordsInterrupted(p, request)
    /\ UNCHANGED <<etData, upload, perDataSourceStats, rc, backup, registryVars>>

NextBatch ==
    \/ save_data_cassandra
    \/ SaveLoop
    \/ SaveLast
    \/ SaveReturn
    \/ \E p \in {1} :
          \/ BindUserToCampaign(p)
          \/ BindInsert(p)
          \/ BindCreateTable(p)
          \/ SubmitDataRecordsInterrupted(p)
          \/ Return(p)

SpecBatch == Init /\ [][NextBatch]_vars

(***************************************************************************)
(* stats/dq_stats.py: amounts_of_data_routine, the thread that recomputes  *)
(* "stats"."perDataSourceStats" from the data tables.                      *)
(***************************************************************************)
\* "et"."campaign"."configJson": the campaign is configured with every data
\* source, in the order of their creation
configJson == [c \in Campaigns |-> [i \in 1 .. NumDataSources |-> [data_source_id |-> i - 1]]]

\* the campaigns whose endTimestamp lies ahead of the clock: the campaign is
\* registered to end CAMPAIGN_DURATION_DAYS after its creation
ActiveCampaigns == CampaignRowIds

\* db_mgr.get_campaigns
get_campaigns(active_only) ==
    SelectSeq(RowsInOrder(CampaignRowIds), LAMBDA c : ~ active_only \/ c \in ActiveCampaigns)

RECURSIVE Flatten(_)
Flatten(lists) == IF lists = <<>> THEN <<>> ELSE Head(lists) \o Flatten(Tail(lists))

\* the (campaign, participant, data source) triples that _update_campaign_stats
\* visits, in the order of its loops; rows that are None are passed over
WorkOf(db_campaign, db_participants, db_data_sources) ==
    SelectSeq(Flatten([i \in 1 .. Len(db_participants) |->
                          [j \in 1 .. Len(db_data_sources) |->
                              <<db_campaign, db_participants[i], db_data_sources[j]>>]]),
              LAMBDA w : w[2] # None /\ w[3] # None)

\* select "timestamp" from the data table where "dataSourceId" = %s
select_timestamps(rows, db_data_source) ==
    Column(SelectSeq(rows, LAMBDA r : r.dataSourceId = db_data_source), "timestamp")

\* variant: the number of samples is one short
total_amount_of_samples_less_one(timestamps) ==
    IF timestamps = <<>> THEN 0 ELSE Len(timestamps) - 1

total_amount_of_samples(timestamps) == Len(timestamps)

last_sync_timestamp(timestamps) ==
    IF total_amount_of_samples(timestamps) = 0 THEN 0
    ELSE CHOOSE m \in {timestamps[i] : i \in 1 .. Len(timestamps)} :
             \A i \in 1 .. Len(timestamps) : timestamps[i] <= m

\* the row that the insert of the three key columns creates
NewStatsRow == [syncTimestamp |-> None, amountOfSamples |-> None]

\* the check for the row and the insert that follows when it is not there
ensure_stats_row(stats, key) ==
    IF key \in DOMAIN stats THEN stats ELSE (key :> NewStatsRow) @@ stats

\* variant: the update adds the scanned amount to the amount of the row
update_stats_row_accumulating(stats, key, sync, amount) ==
    (key :> [syncTimestamp |-> sync,
             amountOfSamples |-> IF key \in DOMAIN stats
                                    /\ stats[key].amountOfSamples # None
                                 THEN stats[key].amountOfSamples + amount
                                 ELSE amount]) @@ stats

\* update "stats"."perDataSourceStats" set "syncTimestamp", "amountOfSamples"
update_stats_row(stats, key, sync, amount) ==
    (key :> [syncTimestamp |-> sync, amountOfSamples |-> amount]) @@ stats

\* history: how many bindings, data tables and data rows there are; each of
\* them only grows, so two equal readings have no binding and no new record
\* between them
Epoch == <<Cardinality(participantStats), Cardinality(DOMAIN data), Len(writeOrder)>>

\* start_background_jobs starts the thread
start_background_jobs ==
    /\ rc.pc = "not_started"
    /\ rc' = [rc EXCEPT !.pc = "started"]
    /\ UNCHANGED <<participantStats, data, pc, req, resp, lastWrite, writeOrder,
                   bindCalls, bindHist, etData, upload, perDataSourceStats, backup, registryVars>>

\* variant: the loop is driven by a timer that fires every
\* STATS_CHECK_INTERVAL_SECONDS, whether or not the cycle before has ended
RcEnumerate_on_timer ==
    /\ rc.pc \in {"started", "sleep", "scan", "update"}
    /\ LET db_campaigns == get_campaigns(TRUE)
           all_db_participants ==
               [c \in Campaigns |-> get_campaign_participants(participantStats, c)]
           all_db_data_sources ==
               [c \in Campaigns |->
                   [i \in 1 .. Len(configJson[c]) |->
                       get_data_source(configJson[c][i].data_source_id)]]
       IN  rc' = [rc EXCEPT !.pc = "scan",
                            !.work = Flatten([i \in 1 .. Len(db_campaigns) |->
                                        WorkOf(db_campaigns[i],
                                               all_db_participants[db_campaigns[i]],
                                               all_db_data_sources[db_campaigns[i]])]),
                            !.timestamps = <<>>,
                            !.seen = Epoch, !.seenPrev = rc.seen]
    /\ UNCHANGED <<participantStats, data, pc, req, resp, lastWrite, writeOrder,
                   bindCalls, bindHist, etData, upload, perDataSourceStats, backup, registryVars>>

\* the head of the loop: the active campaigns, their participants and their
\* data sources are fetched
RcEnumerate ==
    /\ rc.pc \in {"started", "sleep"}
    /\ LET db_campaigns == get_campaigns(TRUE)
           all_db_participants ==
               [c \in Campaigns |-> get_campaign_participants(participantStats, c)]
           all_db_data_sources ==
               [c \in Campaigns |->
                   [i \in 1 .. Len(configJson[c]) |->
                       get_data_source(configJson[c][i].data_source_id)]]
       IN  rc' = [rc EXCEPT !.pc = "scan",
                            !.work = Flatten([i \in 1 .. Len(db_campaigns) |->
                                        WorkOf(db_campaigns[i],
                                               all_db_participants[db_campaigns[i]],
                                               all_db_data_sources[db_campaigns[i]])]),
                            !.seen = Epoch, !.seenPrev = rc.seen]
    /\ UNCHANGED <<participantStats, data, pc, req, resp, lastWrite, writeOrder,
                   bindCalls, bindHist, etData, upload, perDataSourceStats, backup, registryVars>>

\* _update_campaign_stats for one participant and data source, up to the scan:
\* the row is created if it is not there and the timestamps are selected; the
\* select of a table that does not exist raises, and nothing catches it
RcScan ==
    /\ rc.pc = "scan" /\ rc.work # <<>>
    /\ LET w == Head(rc.work)
           t == TableName(w[1], w[2])
       IN  /\ perDataSourceStats' = ensure_stats_row(perDataSourceStats, w)
           /\ rc' = IF t \in DOMAIN data
                    THEN [rc EXCEPT !.pc = "update",
                                    !.timestamps = select_timestamps(data[t], w[3])]
                    ELSE [rc EXCEPT !.pc = "dead", !.raised = "InvalidRequest"]
    /\ UNCHANGED <<participantStats, data, pc, req, resp, lastWrite, writeOrder,
                   bindCalls, bindHist, etData, upload, backup, registryVars>>

\* the select does not answer within QUERY_TIMEOUT_SECONDS: the driver raises,
\* and nothing catches it
RcScanTimeout ==
    /\ rc.pc = "scan" /\ rc.work # <<>>
    /\ perDataSourceStats' = ensure_stats_row(perDataSourceStats, Head(rc.work))
    /\ rc' = [rc EXCEPT !.pc = "dead", !.raised = "OperationTimedOut"]
    /\ UNCHANGED <<participantStats, data, pc, req, resp, lastWrite, writeOrder,
                   bindCalls, bindHist, etData, upload, backup, registryVars>>

\* the update of the row from what was scanned
RcUpdate ==
    /\ rc.pc = "update"
    /\ perDataSourceStats' =
          update_stats_row(perDataSourceStats, Head(rc.work),
                           last_sync_timestamp(rc.timestamps),
                           total_amount_of_samples(rc.timestamps))
    /\ rc' = [rc EXCEPT !.pc = "scan", !.work = Tail(rc.work), !.timestamps = <<>>]
    /\ UNCHANGED <<participantStats, data, pc, req, resp, lastWrite, writeOrder,
                   bindCalls, bindHist, etData, upload, backup, registryVars>>

\* every campaign has been processed: the thread sleeps
\* STATS_CHECK_INTERVAL_SECONDS
RcSleep ==
    /\ rc.pc = "scan" /\ rc.work = <<>>
    /\ rc' = [rc EXCEPT !.pc = "sleep", !.prev = perDataSourceStats]
    /\ UNCHANGED <<participantStats, data, pc, req, resp, lastWrite, writeOrder,
                   bindCalls, bindHist, etData, upload, perDataSourceStats, backup, registryVars>>

Reconciler ==
    \/ start_background_jobs
    \/ RcEnumerate
    \/ RcScan
    \/ RcScanTimeout
    \/ RcUpdate
    \/ RcSleep

\* the samples that participant 0 submits while the statistics are kept: one
\* value per timestamp, for either data source
SampleRequests ==
    {SubmitRequest(0, 0, d, ts, BatchValues(MaxTimestamp)[ts])
        : d \in DataSources, ts \in Timestamps}

SampleBatchRequests ==
    {SubmitBatchRequest(0, 0, <<[ts \in Timestamps |-> ts], ds, BatchValues(MaxTimestamp)>>)
        : ds \in Lists(DataSources, MaxTimestamp)}

\* variant: the handler counts the sample in the statistics itself
SubmitSample_counting(p) ==
    /\ pc[p] = "idle"
    /\ \E request \in SampleRequests :
          /\ submitDataRecord(p, request)
          /\ perDataSourceStats' =
                update_stats_row(perDataSourceStats,
                                 <<request.campaignId, request.userId, request.dataSource>>,
                                 request.timestamp, 1)
    /\ UNCHANGED <<etData, upload, rc, backup, registryVars>>

SubmitSample(p) ==
    /\ pc[p] = "idle"
    /\ \E request \in SampleRequests : submitDataRecord(p, request)
    /\ UNCHANGED <<etData, upload, perDataSourceStats, rc, backup, registryVars>>

SubmitSamples(p) ==
    /\ pc[p] = "idle"
    /\ \E request \in SampleBatchRequests : submitDataRecords(p, request)
    /\ UNCHANGED <<etData, upload, perDataSourceStats, rc, backup, registryVars>>

NextRecon ==
    \/ Reconciler
    \/ \E p \in {1} :
          \/ BindUserToCampaign(p)
          \/ BindInsert(p)
          \/ BindCreateTable(p)
          \/ SubmitSample(p)
          \/ SubmitSamples(p)
          \/ Return(p)

SpecRecon == Init /\ [][NextRecon]_vars

\* the gateway's worker thread beside the statistics thread
ReconGateway ==
    \E p \in {1} :
        \/ BindUserToCampaign(p)
        \/ BindInsert(p)
        \/ BindCreateTable(p)
        \/ SubmitSample(p)
        \/ SubmitSamples(p)
        \/ Return(p)

\* the same steps under fair scheduling: the statistics thread is a thread of
\* its own that sleeps between cycles and is never held back by the gateway,
\* and the gateway's worker runs every handler to its end
SpecReconLive ==
    Init /\ [][NextRecon]_vars /\ WF_vars(Reconciler) /\ WF_vars(ReconGateway)

(***************************************************************************)
(* stats/dq_stats.py: backup_routine, the loop that starts one export      *)
(* thread per active campaign, and the export threads.                     *)
(***************************************************************************)
\* backup_routine is started as a thread
backup_routine ==
    /\ backup.pc = "not_started"
    /\ backup' = [backup EXCEPT !.pc = "started"]
    /\ UNCHANGED <<participantStats, data, pc, req, resp, lastWrite, writeOrder,
                   bindCalls, bindHist, etData, upload, perDataSourceStats, rc, registryVars>>

\* threading.Thread.is_alive
is_alive(thread) == thread.state = "alive"

\* variant: a tick never finds a run to wait for
SkipsTick_never(threads) == FALSE

\* the campaign has an entry in campaign_backup_threads and that thread is
\* alive; the entry is the thread started last, the last of threads
SkipsTick(threads) == threads # <<>> /\ is_alive(threads[Len(threads)])

\* one turn of the loop: for every active campaign whose export thread is not
\* alive a thread is started with the campaign's participants and takes the
\* campaign's entry; then the loop sleeps BACKUP_INTERVAL_SECONDS.  Of the
\* threads that lost the entry only those still running are kept; skipped
\* records the campaigns that this turn passed over
BackupCycle ==
    /\ backup.pc \in {"started", "sleep"}
    /\ LET db_campaigns == get_campaigns(TRUE)
           all_db_participants ==
               [c \in Campaigns |-> get_campaign_participants(participantStats, c)]
           active == {db_campaigns[i] : i \in 1 .. Len(db_campaigns)}
       IN  backup' = [backup EXCEPT
                 !.pc = "sleep",
                 !.skipped = {c \in active : SkipsTick(backup.threads[c])},
                 !.threads = [c \in Campaigns |->
                     IF c \in active /\ ~ SkipsTick(backup.threads[c])
                     THEN Append(SelectSeq(backup.threads[c], is_alive),
                                 [state |-> "alive", todo |-> all_db_participants[c]])
                     ELSE backup.threads[c]]]
    /\ UNCHANGED <<participantStats, data, pc, req, resp, lastWrite, writeOrder,
                   bindCalls, bindHist, etData, upload, perDataSourceStats, rc, registryVars>>

\* _backup_campaign in a thread of campaign c, for the next participant:
\* cqlsh copies the participant's table to its file; when cqlsh fails (the
\* table does not exist, or the copy breaks off) check_call raises, nothing
\* catches it and the thread ends with the exception
BackupCampaign(c) ==
    /\ \E i \in 1 .. Len(backup.threads[c]) :
          /\ is_alive(backup.threads[c][i])
          /\ LET todo == backup.threads[c][i].todo
                 t == TableName(c, Head(todo))
             IN  IF todo = <<>>
                 THEN backup' = [backup EXCEPT !.threads[c][i].state = "ended"]
                 ELSE \/ /\ t \in DOMAIN data
                         /\ backup' = [backup EXCEPT
                                          !.threads[c][i].todo = Tail(todo),
                                          !.files = (t :> data[t]) @@ backup.files]
                      \/ backup' = [backup EXCEPT !.threads[c][i].state = "raised"]
    /\ UNCHANGED <<participantStats, data, pc, req, resp, lastWrite, writeOrder,
                   bindCalls, bindHist, etData, upload, perDataSourceStats, rc, registryVars>>

Backup ==
    \/ backup_routine
    \/ BackupCycle
    \/ \E c \in Campaigns : BackupCampaign(c)

(***************************************************************************)
(* Both background threads beside a gateway that binds participants.       *)
(***************************************************************************)
NextJobs ==
    \/ Reconciler
    \/ Backup
    \/ \E p \in {1} :
          \/ BindUserToCampaign(p)
          \/ BindInsert(p)
          \/ BindCreateTable(p)
          \/ Return(p)

SpecJobs == Init /\ [][NextJobs]_vars

(***************************************************************************)
(* server.py main(): the wait loop in front of the gRPC server.  The       *)
(* backend is reachable or not (boot.up) and holds boot.schema of the      *)
(* NumSchemaStatements statements of assets/schema.cql, the first of which *)
(* creates the keyspace "et".  A call made while the backend is not        *)
(* reachable raises NoHostAvailable.                                       *)
(***************************************************************************)
\* main() is entered: nothing is connected, the backend may be down
BootStart(up, schema) ==
    [pc |-> "get_session", wait_db |-> TRUE, cluster |-> FALSE, session |-> FALSE,
     init_necessary |-> FALSE, todo |-> 0, up |-> up, outages |-> 0, schema |-> schema]

InitBoot ==
    /\ participantStats = {}
    /\ data = [t \in {} |-> EmptyTable]
    /\ lastWrite = [k \in {} |-> <<>>]
    /\ writeOrder = <<>>
    /\ pc = [p \in Threads |-> "idle"]
    /\ req = [p \in Threads |-> NoReq]
    /\ resp = [p \in Threads |-> NoResp]
    /\ bindCalls = [pr \in Pairs |-> 0]
    /\ bindHist = [pr \in Pairs |-> <<>>]
    /\ etData = [key \in {} |-> <<>>]
    /\ upload = NoUpload
    /\ perDataSourceStats = [key \in {} |-> <<>>]
    /\ rc = RcNotStarted
    /\ backup = BackupNotStarted
    /\ \E up \in BOOLEAN :
          \* a backend that sc-test-init.py has set up, or a fresh one
          \/ /\ InitRegistry
             /\ boot = BootStart(up, NumSchemaStatements)
          \/ /\ user = {}
             /\ campaign = [key \in {} |-> CampaignColumns(0)]
             /\ campaignResearchers = {}
             /\ lastHeartbeatTimestamp = [pr \in {} |-> 0]
             /\ clock = 1
             /\ dumps = {}
             /\ boot = BootStart(up, 0)

BootFrame ==
    UNCHANGED <<participantStats, data, pc, req, resp, lastWrite, writeOrder, bindCalls,
                bindHist, etData, upload, perDataSourceStats, rc, backup,
                user, campaign, campaignResearchers, lastHeartbeatTimestamp, clock, dumps>>

\* the except clause of the loop: sleep, then test "while wait_db"
except_clause(wait_db) == IF wait_db THEN "get_session" ELSE "start"

\* the backend goes down or comes back while main() runs
BackendToggles ==
    /\ boot.pc # "serving"
    /\ boot.outages < MaxOutages
    /\ boot' = [boot EXCEPT !.up = ~ boot.up, !.outages = boot.outages + 1]
    /\ BootFrame

\* session = db.get_cassandra_session(); if session is None: sleep, continue;
\* wait_db = False
BootGetSession ==
    /\ boot.pc = "get_session"
    /\ IF boot.cluster
       THEN \* settings.cassandra_cluster is set: the stored session is handed out
            boot' = [boot EXCEPT !.pc = IF boot.session THEN "probe" ELSE "get_session",
                                 !.wait_db = ~ boot.session]
       ELSE IF boot.up
       THEN boot' = [boot EXCEPT !.cluster = TRUE, !.session = TRUE,
                                 !.pc = "probe", !.wait_db = FALSE]
       ELSE \* Cluster(...) raises UnresolvableContactPoints before the
            \* assignment, or connect() raises NoHostAvailable after it
            \E assigned \in BOOLEAN :
                boot' = [boot EXCEPT !.cluster = assigned,
                                     !.pc = except_clause(boot.wait_db)]
    /\ BootFrame

\* res = session.execute("select count(*) from system_schema.keyspaces ...");
\* init_necessary = res.one()[0] == 0
BootProbe ==
    /\ boot.pc = "probe"
    /\ IF ~ boot.up
       THEN boot' = [boot EXCEPT !.pc = except_clause(boot.wait_db)]
       ELSE LET init_necessary == boot.schema = 0
            IN  boot' = [boot EXCEPT !.init_necessary = init_necessary,
                                     !.todo = IF init_necessary THEN NumSchemaStatements ELSE 0,
                                     !.pc = IF init_necessary THEN "init" ELSE "start"]
    /\ BootFrame

\* for stmt in cql.split(";"): session.execute(stmt)
BootInit ==
    /\ boot.pc = "init"
    /\ IF boot.todo = 0
       THEN boot' = [boot EXCEPT !.pc = "start"]
       ELSE IF ~ boot.up
       THEN boot' = [boot EXCEPT !.pc = except_clause(boot.wait_db)]
       ELSE boot' = [boot EXCEPT !.todo = boot.todo - 1,
                                 !.schema = NumSchemaStatements - boot.todo + 1]
    /\ BootFrame

\* server.start()
BootServe ==
    /\ boot.pc = "start"
    /\ boot' = [boot EXCEPT !.pc = "serving"]
    /\ BootFrame

main ==
    \/ BootGetSession
    \/ BootProbe
    \/ BootInit
    \/ BootServe

NextBoot ==
    \/ main
    \/ BackendToggles

SpecBoot == InitBoot /\ [][NextBoot]_vars

\* the same steps under fair scheduling: main() is the process's main thread
\* and is never held back; of the backend nothing is assumed
SpecBootLive == InitBoot /\ [][NextBoot]_vars /\ WF_vars(main)

(***************************************************************************)
(* Exports of a data table: ETServiceServicer.downloadDumpfile and the     *)
(* dashboard's handle_download_data_api and handle_download_csv_api.       *)
(***************************************************************************)
\* variant: the storage runs the copy as cqlsh would
execute_copy_as_cqlsh(table) ==
    IF table \in DOMAIN data THEN [rows |-> data[table]] ELSE [raises |-> "InvalidRequest"]

\* session.execute('copy (select ...) to %s with binary;'): copy is a command
\* of cqlsh, not a CQL statement, and the execute raises
execute_copy(table) == [raises |-> "SyntaxException"]

\* db_mgr.dump_data of the gRPC server: the file is named, the copy is
\* executed on the session that get_cassandra_session hands out, and then
\* session.close() is called on that session; closed tells whether the call
\* got as far as the close
dump_data(db_campaign, db_user) ==
    LET copied == execute_copy(TableName(db_campaign, db_user))
    IN  IF "raises" \in DOMAIN copied
        THEN [raises |-> copied.raises, closed |-> FALSE]
        ELSE [content |-> copied.rows, closed |-> TRUE]

\* db_mgr.dump_data of the dashboard: get_download_file_path creates the file
\* empty, cqlsh is run with "copy data.cmp{c}_usr{u} to '{file}'" and its
\* outcome is not looked at: the file holds the rows of the table, or is
\* still empty when cqlsh finds no such table or does not get to run the copy
dashboard_dump_data(db_campaign, db_user) ==
    {<<>>} \cup (IF TableName(db_campaign, db_user) \in DOMAIN data
                 THEN {data[TableName(db_campaign, db_user)]} ELSE {})

\* an export that a download handler has served
Dump(handler, db_user, db_campaign, db_target_user, content) ==
    [handler |-> handler, userId |-> db_user, campaignId |-> db_campaign,
     targetUserId |-> db_target_user, content |-> content]

ExportFrame ==
    UNCHANGED <<participantStats, data, lastWrite, writeOrder, bindCalls, bindHist,
                etData, upload, perDataSourceStats, rc, backup,
                user, campaign, campaignResearchers, lastHeartbeatTimestamp, clock, boot>>

downloadDumpfile(p, request) ==
    /\ pc[p] = "idle"
    /\ LET db_user == get_user(request.userId)
           db_campaign == get_campaign(request.campaignId)
           db_target_user == get_user(request.targetEmail)
           allowed ==
               /\ None \notin {db_user, db_campaign, db_target_user}
               /\ sessionKey[db_user] = request.sessionKey
               /\ creatorId[db_campaign] = db_user
               /\ user_is_bound_to_campaign(participantStats, db_target_user, db_campaign)
           file == dump_data(db_campaign, db_target_user)
       IN  IF ~ allowed
           THEN /\ resp' = [resp EXCEPT ![p] = Failure @@ [dump |-> <<>>]]
                /\ UNCHANGED <<dumps, boot>>
           ELSE IF "raises" \in DOMAIN file
           THEN /\ resp' = [resp EXCEPT ![p] = Raised(file.raises) @@ [dump |-> <<>>]]
                /\ boot' = [boot EXCEPT !.session = boot.session /\ ~ file.closed]
                /\ UNCHANGED dumps
           ELSE /\ resp' = [resp EXCEPT ![p] =
                               [success |-> TRUE, raised |-> "", dump |-> file.content]]
                /\ dumps' = dumps \cup {Dump("downloadDumpfile", db_user, db_campaign,
                                             db_target_user, file.content)}
                /\ boot' = [boot EXCEPT !.session = boot.session /\ ~ file.closed]
    /\ req' = [req EXCEPT ![p] = request]
    /\ pc' = [pc EXCEPT ![p] = "done"]
    /\ UNCHANGED <<participantStats, data, lastWrite, writeOrder, bindCalls, bindHist,
                   etData, upload, perDataSourceStats, rc, backup,
                   user, campaign, campaignResearchers, lastHeartbeatTimestamp, clock>>

\* the dashboard answers with a redirect where it serves nothing
handle_download_data_api(p, request) ==
    /\ pc[p] = "idle"
    /\ LET db_user == get_user(request.userId)
           db_campaign == get_campaign(request.campaignId)
           db_participant_user == get_user(request.participantId)
       IN  IF None \in {db_user, db_campaign, db_participant_user}
           THEN /\ resp' = [resp EXCEPT ![p] = Failure @@ [dump |-> <<>>]]
                /\ UNCHANGED dumps
           ELSE \E dump_content \in dashboard_dump_data(db_campaign, db_participant_user) :
                   /\ resp' = [resp EXCEPT ![p] =
                                  [success |-> TRUE, raised |-> "", dump |-> dump_content]]
                   /\ dumps' = dumps \cup {Dump("handle_download_data_api", db_user,
                                                db_campaign, db_participant_user,
                                                dump_content)}
    /\ req' = [req EXCEPT ![p] = request]
    /\ pc' = [pc EXCEPT ![p] = "done"]
    /\ ExportFrame

\* the request names a participant ("user_id"), a data source
\* ("data_source_id") or neither; dump_data is called without its db_user
\* argument in the latter two cases
handle_download_csv_api(p, request) ==
    /\ pc[p] = "idle"
    /\ LET db_user == get_user(request.userId)
           db_campaign == get_campaign(request.campaignId)
           db_participant_user == get_user(request.participantId)
       IN  IF None \in {db_user, db_campaign}
           THEN /\ resp' = [resp EXCEPT ![p] = Failure @@ [dump |-> <<>>]]
                /\ UNCHANGED dumps
           ELSE IF request.by = "user_id" /\ db_participant_user = None
           THEN /\ resp' = [resp EXCEPT ![p] = Failure @@ [dump |-> <<>>]]
                /\ UNCHANGED dumps
           ELSE IF request.by = "data_source_id" /\ get_data_source(request.dataSourceId) = None
           THEN /\ resp' = [resp EXCEPT ![p] = Failure @@ [dump |-> <<>>]]
                /\ UNCHANGED dumps
           ELSE IF request.by # "user_id"
           THEN /\ resp' = [resp EXCEPT ![p] = Raised("TypeError") @@ [dump |-> <<>>]]
                /\ UNCHANGED dumps
           ELSE \E dump_content \in dashboard_dump_data(db_campaign, db_participant_user) :
                   /\ resp' = [resp EXCEPT ![p] =
                                  [success |-> TRUE, raised |-> "", dump |-> dump_content]]
                   /\ dumps' = dumps \cup {Dump("handle_download_csv_api", db_user,
                                                db_campaign, db_participant_user,
                                                dump_content)}
    /\ req' = [req EXCEPT ![p] = request]
    /\ pc' = [pc EXCEPT ![p] = "done"]
    /\ ExportFrame

DumpfileRequests ==
    {[op |-> "downloadDumpfile", userId |-> u, sessionKey |-> k, campaignId |-> c,
      targetEmail |-> tu] : u \in UserIds, k \in Users, c \in CampaignIds, tu \in UserIds}

DownloadDataRequests ==
    {[op |-> "handle_download_data_api", userId |-> u, campaignId |-> c,
      participantId |-> tu] : u \in UserIds, c \in CampaignIds, tu \in UserIds}

DownloadCsvRequests ==
    {[op |-> "handle_download_csv_api", userId |-> u, campaignId |-> c, by |-> "user_id",
      participantId |-> tu, dataSourceId |-> None]
        : u \in UserIds, c \in CampaignIds, tu \in UserIds}
    \cup {[op |-> "handle_download_csv_api", userId |-> u, campaignId |-> 0, by |-> by,
           participantId |-> None, dataSourceId |-> d]
            : u \in Users, by \in {"data_source_id", "none"}, d \in {0, NumDataSources}}

DownloadDumpfile(p) ==
    /\ Cardinality(dumps) < MaxDumps
    /\ \E request \in DumpfileRequests : downloadDumpfile(p, request)

HandleDownloadDataApi(p) ==
    /\ Cardinality(dumps) < MaxDumps
    /\ \E request \in DownloadDataRequests : handle_download_data_api(p, request)

HandleDownloadCsvApi(p) ==
    /\ Cardinality(dumps) < MaxDumps
    /\ \E request \in DownloadCsvRequests : handle_download_csv_api(p, request)

NextExport ==
    \E p \in {1} :
        \/ BindUserToCampaign(p)
        \/ BindInsert(p)
        \/ BindCreateTable(p)
        \/ SubmitSample(p)
        \/ DownloadDumpfile(p)
        \/ HandleDownloadDataApi(p)
        \/ HandleDownloadCsvApi(p)
        \/ Return(p)

SpecExport == Init /\ [][NextExport]_vars

(***************************************************************************)
(* The campaign registry: ETServiceServicer.registerCampaign and           *)
(* deleteCampaign, the dashboard's handle_campaign_editor,                 *)
(* handle_delete_campaign_api and handle_researchers_list, and the db_mgr  *)
(* functions under them.  A handler reads first and writes in a later      *)
(* statement; what it has read it keeps as locals beside its request.      *)
(***************************************************************************)
\* the None of a select that finds no row of "et"."campaign"
NoRow == <<>>

\* the row that get_campaign(campaign_id=...) returns, as its key
\* <<creatorId, id>>, or None
get_campaign_row(campaignId) ==
    IF campaignId \in CampaignRowIds THEN CampaignKey(campaignId) ELSE NoRow

\* get_campaign(campaign_id=..., db_researcher_user=...): the row of the id
\* that the user created; or, for a researcher of the campaign, the row of
\* the id
get_campaign_row_of_researcher(campaignId, db_researcher_user) ==
    IF db_researcher_user = None
    THEN get_campaign_row(campaignId)
    ELSE IF <<db_researcher_user, campaignId>> \in DOMAIN campaign
    THEN <<db_researcher_user, campaignId>>
    ELSE IF <<campaignId, db_researcher_user>> \in campaignResearchers
    THEN get_campaign_row(campaignId)
    ELSE NoRow

\* get_next_id(table_name='"et"."campaign"'): max("id") + 1, or 0
get_next_id(ids) == IF ids = {} THEN 0 ELSE (CHOOSE m \in ids : \A i \in ids : i <= m) + 1

\* an insert or update of "et"."campaign" writes the row of the key
upsert_campaign(table, key, columns) == (key :> columns) @@ table

\* delete from "et"."campaign" where "creatorId"=%s and "id"=%s
delete_campaign(table, key) == [k \in DOMAIN table \ {key} |-> table[k]]

CampaignFrame ==
    UNCHANGED <<participantStats, data, lastWrite, writeOrder, bindCalls, bindHist,
                etData, upload, perDataSourceStats, rc, backup,
                user, lastHeartbeatTimestamp, clock, dumps, boot>>

\* the handler has read what it decides on: it ends, or goes on to write
Decided(p, request, locals, allowed, next) ==
    /\ req' = [req EXCEPT ![p] = request @@ locals]
    /\ pc' = [pc EXCEPT ![p] = IF allowed THEN next ELSE "done"]
    /\ resp' = [resp EXCEPT ![p] = Failure]
    /\ UNCHANGED <<campaign, campaignResearchers>>
    /\ CampaignFrame

\* variant: the handler goes on to write for every caller whose session key
\* is right
registerCampaign_any_caller(p, request) ==
    /\ pc[p] = "idle"
    /\ LET db_user == get_user(request.userId)
           db_campaign == get_campaign_row(request.campaignId)
       IN  Decided(p, request, [db_user |-> db_user, db_campaign |-> db_campaign],
                   /\ db_user # None
                   /\ sessionKey[db_user] = request.sessionKey,
                   IF db_campaign = NoRow THEN "get_next_id" ELSE "update_campaign")

\* registerCampaign up to the call of create_or_update_campaign
registerCampaign(p, request) ==
    /\ pc[p] = "idle"
    /\ LET db_user == get_user(request.userId)
           db_campaign == get_campaign_row(request.campaignId)
       IN  Decided(p, request, [db_user |-> db_user, db_campaign |-> db_campaign],
                   /\ db_user # None
                   /\ sessionKey[db_user] = request.sessionKey
                   /\ (db_campaign = NoRow \/ db_campaign[1] = db_user),
                   IF db_campaign = NoRow THEN "get_next_id" ELSE "update_campaign")

\* handle_campaign_editor (POST) up to the call of create_or_update_campaign
handle_campaign_editor(p, request) ==
    /\ pc[p] = "idle"
    /\ LET db_user == get_user(request.userId)
           db_campaign == get_campaign_row(request.campaignId)
       IN  Decided(p, request, [db_user |-> db_user, db_campaign |-> db_campaign],
                   /\ db_user # None
                   /\ (db_campaign = NoRow \/ db_campaign[1] = db_user),
                   IF db_campaign = NoRow THEN "get_next_id" ELSE "update_campaign")

\* create_or_update_campaign, db_campaign is None: get_next_id
CreateCampaignNextId(p) ==
    /\ pc[p] = "get_next_id"
    /\ get_next_id(CampaignRowIds) \in CampaignIds
    /\ req' = [req EXCEPT ![p] = [next_id |-> get_next_id(CampaignRowIds)] @@ req[p]]
    /\ pc' = [pc EXCEPT ![p] = "insert_campaign"]
    /\ UNCHANGED <<resp, campaign, campaignResearchers>>
    /\ CampaignFrame

\* create_or_update_campaign, db_campaign is None: the insert
CreateCampaignInsert(p) ==
    /\ pc[p] = "insert_campaign"
    /\ campaign' = upsert_campaign(campaign, <<req[p].db_user, req[p].next_id>>,
                                   CampaignColumns(req[p].settings))
    /\ pc' = [pc EXCEPT ![p] = "done"]
    /\ resp' = [resp EXCEPT ![p] = [success |-> TRUE, raised |-> ""]]
    /\ UNCHANGED <<req, campaignResearchers>>
    /\ CampaignFrame

\* create_or_update_campaign, db_campaign.creatorId == db_creator_user.id:
\* update ... where "creatorId"=%s and "id"=%s; for another creator it
\* returns None and writes nothing
UpdateCampaign(p) ==
    /\ pc[p] = "update_campaign"
    /\ campaign' = IF req[p].db_campaign[1] = req[p].db_user
                   THEN upsert_campaign(campaign, <<req[p].db_user, req[p].db_campaign[2]>>,
                                        CampaignColumns(req[p].settings))
                   ELSE campaign
    /\ pc' = [pc EXCEPT ![p] = "done"]
    /\ resp' = [resp EXCEPT ![p] = [success |-> TRUE, raised |-> ""]]
    /\ UNCHANGED <<req, campaignResearchers>>
    /\ CampaignFrame

\* deleteCampaign up to the call of delete_campaign
deleteCampaign(p, request) ==
    /\ pc[p] = "idle"
    /\ LET db_user == get_user(request.userId)
           db_campaign == get_campaign_row_of_researcher(request.campaignId, db_user)
       IN  Decided(p, request, [db_user |-> db_user, db_campaign |-> db_campaign],
                   /\ db_user # None /\ db_campaign # NoRow
                   /\ sessionKey[db_user] = request.sessionKey,
                   "delete_campaign")

\* handle_delete_campaign_api up to the call of delete_campaign
handle_delete_campaign_api(p, request) ==
    /\ pc[p] = "idle"
    /\ LET db_user == get_user(request.userId)
           db_campaign == get_campaign_row(request.campaignId)
       IN  Decided(p, request, [db_user |-> db_user, db_campaign |-> db_campaign],
                   db_user # None /\ db_campaign # NoRow,
                   "delete_campaign")

\* variant: the delete takes the bindings of the campaign with it
DeleteCampaignRow_cascading(p) ==
    /\ pc[p] = "delete_campaign"
    /\ campaign' = delete_campaign(campaign, req[p].db_campaign)
    /\ participantStats' = {r \in participantStats : r[2] # req[p].db_campaign[2]}
    /\ pc' = [pc EXCEPT ![p] = "done"]
    /\ resp' = [resp EXCEPT ![p] = [success |-> TRUE, raised |-> ""]]
    /\ UNCHANGED <<req, campaignResearchers>>
    /\ UNCHANGED <<data, lastWrite, writeOrder, bindCalls, bindHist,
                   etData, upload, perDataSourceStats, rc, backup,
                   user, lastHeartbeatTimestamp, clock, dumps, boot>>

\* db_mgr.delete_campaign
DeleteCampaignRow(p) ==
    /\ pc[p] = "delete_campaign"
    /\ campaign' = delete_campaign(campaign, req[p].db_campaign)
    /\ pc' = [pc EXCEPT ![p] = "done"]
    /\ resp' = [resp EXCEPT ![p] = [success |-> TRUE, raised |-> ""]]
    /\ UNCHANGED <<req, campaignResearchers>>
    /\ CampaignFrame

\* handle_researchers_list with action=add or action=remove: the caller is
\* the creator or a researcher of the campaign
handle_researchers_list(p, request) ==
    /\ pc[p] = "idle"
    /\ LET db_user == get_user(request.userId)
           db_campaign == get_campaign_row_of_researcher(request.campaignId, db_user)
           db_researcher_user == get_user(request.targetEmail)
           row == <<request.campaignId, db_researcher_user>>
       IN  IF db_user = None \/ db_campaign = NoRow \/ db_researcher_user = None
           THEN /\ resp' = [resp EXCEPT ![p] = Failure]
                /\ UNCHANGED campaignResearchers
           ELSE /\ resp' = [resp EXCEPT ![p] = [success |-> TRUE, raised |-> ""]]
                /\ campaignResearchers' =
                       IF request.action = "add"
                       THEN campaignResearchers \cup {row}
                       ELSE campaignResearchers \ {row}
    /\ req' = [req EXCEPT ![p] = request]
    /\ pc' = [pc EXCEPT ![p] = "done"]
    /\ UNCHANGED campaign
    /\ CampaignFrame

RegisterRequests ==
    {[op |-> "registerCampaign", userId |-> u, sessionKey |-> k, campaignId |-> c,
      settings |-> n] : u \in UserIds, k \in Users, c \in CampaignIds, n \in {1}}

EditorRequests ==
    {[op |-> "handle_campaign_editor", userId |-> u, campaignId |-> c, settings |-> n]
        : u \in UserIds, c \in CampaignIds, n \in {1}}

DeleteRequests ==
    {[op |-> "deleteCampaign", userId |-> u, sessionKey |-> k, campaignId |-> c]
        : u \in UserIds, k \in Users, c \in CampaignIds}

DeleteApiRequests ==
    {[op |-> "handle_delete_campaign_api", userId |-> u, campaignId |-> c]
        : u \in UserIds, c \in CampaignIds}

ResearchersRequests ==
    {[op |-> "handle_researchers_list", userId |-> u, campaignId |-> c,
      targetEmail |-> tu, action |-> a]
        : u \in Users, c \in Campaigns, tu \in UserIds, a \in {"add", "remove"}}

RegisterCampaign(p) == \E request \in RegisterRequests : registerCampaign(p, request)

HandleCampaignEditor(p) == \E request \in EditorRequests : handle_campaign_editor(p, request)

DeleteCampaign(p) == \E request \in DeleteRequests : deleteCampaign(p, request)

HandleDeleteCampaignApi(p) ==
    \E request \in DeleteApiRequests : handle_delete_campaign_api(p, request)

HandleResearchersList(p) ==
    \E request \in ResearchersRequests : handle_researchers_list(p, request)

\* the bind requests of the user who is not the creator for the first campaign
BindParticipant(p) ==
    /\ pc[p] = "idle"
    /\ \E request \in {r \in BindRequests : r.userId = 1 /\ r.campaignId \in Campaigns} :
          BindCheck(p, request)
    /\ UNCHANGED <<etData, upload, perDataSourceStats, rc, backup, registryVars>>

\* a second worker thread serves registerCampaign and deleteCampaign
\* requests of the users, made with their own session keys
RegisterCampaignBeside(p) ==
    \E request \in {r \in RegisterRequests : r.userId \in Users /\ r.sessionKey = r.userId} :
        registerCampaign(p, request)

DeleteCampaignBeside(p) ==
    \E request \in {r \in DeleteRequests : r.userId \in Users /\ r.sessionKey = r.userId} :
        deleteCampaign(p, request)

NextCampaigns ==
    \/ \E p \in {1} :
          \/ RegisterCampaign(p)
          \/ HandleCampaignEditor(p)
          \/ DeleteCampaign(p)
          \/ HandleDeleteCampaignApi(p)
          \/ HandleResearchersList(p)
          \/ BindParticipant(p)
          \/ BindInsert(p)
          \/ BindCreateTable(p)
    \/ \E p \in {2} :
          \/ RegisterCampaignBeside(p)
          \/ DeleteCampaignBeside(p)
    \/ \E p \in Threads :
          \/ CreateCampaignNextId(p)
          \/ CreateCampaignInsert(p)
          \/ UpdateCampaign(p)
          \/ DeleteCampaignRow(p)
          \/ Return(p)

SpecCampaigns == Init /\ [][NextCampaigns]_vars

\* the bind requests of participant 0, who submits the samples
BindSampler(p) ==
    /\ pc[p] = "idle"
    /\ \E request \in {r \in BindRequests : r.userId = 0 /\ r.campaignId \in Campaigns} :
          BindCheck(p, request)
    /\ UNCHANGED <<etData, upload, perDataSourceStats, rc, backup, registryVars>>

\* campaigns are deleted while a participant is bound, samples are stored and
\* the statistics thread runs
NextDelete ==
    \/ Reconciler
    \/ \E p \in {1} :
          \/ BindSampler(p)
          \/ BindInsert(p)
          \/ BindCreateTable(p)
          \/ SubmitSample(p)
          \/ DeleteCampaignBeside(p)
          \/ HandleDeleteCampaignApi(p)
          \/ DeleteCampaignRow(p)
          \/ Return(p)

SpecDelete == Init /\ [][NextDelete]_vars

(***************************************************************************)
(* The participants of a campaign: the dashboard's handle_participants_list *)
(* with the get_campaign_participants of the dashboard's db_mgr, beside    *)
(* the gRPC server's retrieveParticipants; and                             *)
(* ETServiceServicer.submitHeartbeat.                                      *)
(***************************************************************************)
\* get_campaign_participants of the dashboard: the users of the rows of the
\* campaign; the row of a user who no longer resolves is deleted
dashboard_get_campaign_participants(stats, db_campaign) ==
    [participants |-> get_campaign_participants(stats, db_campaign),
     stats |-> {r \in stats : r[2] = db_campaign => get_user(r[1]) # None}]

BindingsFrame ==
    UNCHANGED <<data, lastWrite, writeOrder, bindCalls, bindHist,
                etData, upload, perDataSourceStats, rc, backup,
                campaign, campaignResearchers, dumps, boot>>

handle_participants_list(p, request) ==
    /\ pc[p] = "idle"
    /\ LET db_user == get_user(request.userId)
           db_campaign == get_campaign_of_researcher(request.campaignId, db_user)
           listed == dashboard_get_campaign_participants(participantStats, db_campaign)
       IN  IF db_user = None \/ db_campaign = None
           THEN /\ resp' = [resp EXCEPT ![p] = [success |-> FALSE, userId |-> <<>>]]
                /\ UNCHANGED <<participantStats, lastHeartbeatTimestamp>>
           ELSE /\ resp' = [resp EXCEPT ![p] =
                               [success |-> TRUE, userId |-> listed.participants]]
                /\ participantStats' = listed.stats
                /\ lastHeartbeatTimestamp' =
                       [pr \in DOMAIN lastHeartbeatTimestamp \cap listed.stats |->
                           lastHeartbeatTimestamp[pr]]
    /\ req' = [req EXCEPT ![p] = request]
    /\ pc' = [pc EXCEPT ![p] = "done"]
    /\ UNCHANGED <<user, clock>>
    /\ BindingsFrame

\* a row of "et"."user" is removed in the database: the case that
\* get_campaign_participants provides for (nothing in the servers removes a
\* user row)
UserRowRemoved ==
    /\ \E u \in user : user' = user \ {u}
    /\ UNCHANGED <<participantStats, pc, req, resp, lastHeartbeatTimestamp, clock>>
    /\ BindingsFrame

\* utils.get_timestamp_ms() moves on
Tick ==
    /\ clock < MaxClock
    /\ clock' = clock + 1
    /\ UNCHANGED <<participantStats, pc, req, resp, lastHeartbeatTimestamp, user>>
    /\ BindingsFrame

\* variant: the handler goes on to the update whether or not the participant
\* is bound
submitHeartbeat_unchecked(p, request) ==
    /\ pc[p] = "idle"
    /\ LET db_user == get_user(request.userId)
           db_campaign == get_campaign(request.campaignId)
       IN  /\ pc' = [pc EXCEPT ![p] = IF db_user # None /\ db_campaign # None
                                      THEN "update_heartbeat" ELSE "done"]
           /\ req' = [req EXCEPT ![p] = request]
           /\ resp' = [resp EXCEPT ![p] = Failure]
    /\ UNCHANGED <<participantStats, lastHeartbeatTimestamp, user, clock>>
    /\ BindingsFrame

\* submitHeartbeat up to the call of update_user_heartbeat_timestamp
submitHeartbeat(p, request) ==
    /\ pc[p] = "idle"
    /\ LET db_user == get_user(request.userId)
           db_campaign == get_campaign(request.campaignId)
       IN  /\ pc' = [pc EXCEPT ![p] =
                        IF /\ db_user # None /\ db_campaign # None
                           /\ user_is_bound_to_campaign(participantStats, db_user, db_campaign)
                        THEN "update_heartbeat" ELSE "done"]
           /\ req' = [req EXCEPT ![p] = request]
           /\ resp' = [resp EXCEPT ![p] = Failure]
    /\ UNCHANGED <<participantStats, lastHeartbeatTimestamp, user, clock>>
    /\ BindingsFrame

\* update_user_heartbeat_timestamp: update "stats"."campaignParticipantStats"
\* set "lastHeartbeatTimestamp" = now where "userId" and "campaignId"; an
\* update writes the row of its key, present or not
UpdateHeartbeat(p) ==
    /\ pc[p] = "update_heartbeat"
    /\ participantStats' = participantStats \cup {<<req[p].userId, req[p].campaignId>>}
    /\ lastHeartbeatTimestamp' =
           (<<req[p].userId, req[p].campaignId>> :> clock) @@ lastHeartbeatTimestamp
    /\ pc' = [pc EXCEPT ![p] = "done"]
    /\ resp' = [resp EXCEPT ![p] = [success |-> TRUE, raised |-> ""]]
    /\ UNCHANGED <<req, user, clock>>
    /\ BindingsFrame

ParticipantsListRequests ==
    {[op |-> "handle_participants_list", userId |-> u, campaignId |-> c]
        : u \in UserIds, c \in CampaignIds}

HeartbeatRequests ==
    {[op |-> "submitHeartbeat", userId |-> u, campaignId |-> c]
        : u \in UserIds, c \in CampaignIds}

HandleParticipantsList(p) ==
    \E request \in ParticipantsListRequests : handle_participants_list(p, request)

SubmitHeartbeat(p) == \E request \in HeartbeatRequests : submitHeartbeat(p, request)

NextBindings ==
    \/ UserRowRemoved
    \/ \E p \in Threads :
          \/ BindUserToCampaign(p)
          \/ BindInsert(p)
          \/ BindCreateTable(p)
          \/ RetrieveParticipants(p)
          \/ HandleParticipantsList(p)
          \/ Return(p)

SpecBindings == Init /\ [][NextBindings]_vars

\* heartbeats of two worker threads beside binds and campaign deletions
NextHeartbeat ==
    \/ Tick
    \/ \E p \in {1} :
          \/ BindUserToCampaign(p)
          \/ BindInsert(p)
          \/ BindCreateTable(p)
          \/ DeleteCampaignBeside(p)
          \/ DeleteCampaignRow(p)
    \/ \E p \in Threads :
          \/ SubmitHeartbeat(p)
          \/ UpdateHeartbeat(p)
          \/ Return(p)

SpecHeartbeat == Init /\ [][NextHeartbeat]_vars

(***************************************************************************)
(* The tables that the gateway's stores, reads and exports name: one       *)
(* worker thread binds participant 0 while another serves submissions,     *)
(* reads and downloads.                                                    *)
(***************************************************************************)
NextShards ==
    \/ \E p \in {1} :
          \/ BindSampler(p)
          \/ BindInsert(p)
          \/ BindCreateTable(p)
          \/ Return(p)
    \/ \E p \in {2} :
          \/ SubmitSample(p)
          \/ SubmitSamples(p)
          \/ RetrieveKNextDataRecords(p)
          \/ RetrieveFilteredDataRecords(p)
          \/ DownloadDumpfile(p)
          \/ HandleDownloadDataApi(p)
          \/ Return(p)

SpecShards == Init /\ [][NextShards]_vars

(***************************************************************************)
(* backup_routine with two active campaigns.  Every export thread writes   *)
(* its copy command to the one file query.cqlsh and then has cqlsh run     *)
(* that file; the two are separate steps, and the threads of different     *)
(* campaigns run side by side.  (With one campaign there is one writer of  *)
(* the file at a time, and BackupCampaign takes both steps as one.)        *)
(***************************************************************************)
\* the thread of _backup_campaign as it is started: it is about to write the
\* command of its first participant; exported lists, for every copy that the
\* thread had cqlsh run, the table it prepared and the table that was copied
ExportThread(db_participants) ==
    [state |-> "alive", todo |-> db_participants, pc |-> "write_query",
     table |-> <<>>, exported |-> <<>>]

\* two campaigns of user 0, every user bound to both, no export started;
\* query.cqlsh is empty
InitArchive ==
    /\ participantStats = Users \X CampaignIds
    /\ data = [t \in CampaignIds \X Users |-> EmptyTable]
    /\ lastWrite = [k \in {} |-> <<>>]
    /\ writeOrder = <<>>
    /\ pc = [p \in Threads |-> "idle"]
    /\ req = [p \in Threads |-> NoReq]
    /\ resp = [p \in Threads |-> NoResp]
    /\ bindCalls = [pr \in Pairs |-> 0]
    /\ bindHist = [pr \in Pairs |-> <<>>]
    /\ etData = [key \in {} |-> <<>>]
    /\ upload = NoUpload
    /\ perDataSourceStats = [key \in {} |-> <<>>]
    /\ rc = RcNotStarted
    /\ backup = [pc |-> "started",
                 threads |-> [c \in CampaignIds |-> <<>>],
                 skipped |-> {},
                 files |-> [t \in {} |-> <<>>],
                 query |-> <<>>]
    /\ user = Users
    /\ campaign = [key \in {<<0, c>> : c \in CampaignIds} |-> CampaignColumns(0)]
    /\ campaignResearchers = {}
    /\ lastHeartbeatTimestamp = [pr \in {} |-> 0]
    /\ clock = 1
    /\ dumps = {}
    /\ boot = BootServing

ArchiveFrame ==
    UNCHANGED <<participantStats, data, pc, req, resp, lastWrite, writeOrder,
                bindCalls, bindHist, etData, upload, perDataSourceStats, rc, registryVars>>

\* one turn of the loop of backup_routine, as BackupCycle, over the campaigns
\* that get_campaigns returns
ArchiveCycle ==
    /\ backup.pc \in {"started", "sleep"}
    /\ LET db_campaigns == get_campaigns(TRUE)
           all_db_participants ==
               [c \in CampaignIds |-> get_campaign_participants(participantStats, c)]
           active == {db_campaigns[i] : i \in 1 .. Len(db_campaigns)}
       IN  backup' = [backup EXCEPT
                 !.pc = "sleep",
                 !.skipped = {c \in active : SkipsTick(backup.threads[c])},
                 !.threads = [c \in CampaignIds |->
                     IF c \in active /\ ~ SkipsTick(backup.threads[c])
                     THEN Append(SelectSeq(backup.threads[c], is_alive),
                                 ExportThread(all_db_participants[c]))
                     ELSE backup.threads[c]]]
    /\ ArchiveFrame

\* _backup_campaign, for the next participant: table, filepath and query are
\* built and the query is written to query_path, replacing what the file held
WriteQuery(c) ==
    /\ \E i \in 1 .. Len(backup.threads[c]) :
          /\ is_alive(backup.threads[c][i])
          /\ backup.threads[c][i].pc = "write_query"
          /\ LET todo == backup.threads[c][i].todo
                 table == TableName(c, Head(todo))
             IN  IF todo = <<>>
                 THEN backup' = [backup EXCEPT !.threads[c][i].state = "ended"]
                 ELSE backup' = [backup EXCEPT !.threads[c][i].table = table,
                                               !.threads[c][i].pc = "check_call",
                                               !.query = table]
    /\ ArchiveFrame

\* subprocess.check_call(["cqlsh", "-f", query_path]): cqlsh runs the command
\* that the file holds now, copying the table it names to that table's file;
\* when cqlsh fails check_call raises and the thread ends
CheckCall(c) ==
    /\ \E i \in 1 .. Len(backup.threads[c]) :
          /\ is_alive(backup.threads[c][i])
          /\ backup.threads[c][i].pc = "check_call"
          /\ LET thread == backup.threads[c][i]
             IN  \/ /\ backup.query \in DOMAIN data
                    /\ backup' = [backup EXCEPT
                          !.threads[c][i].todo = Tail(thread.todo),
                          !.threads[c][i].pc = "write_query",
                          !.threads[c][i].exported =
                                Append(thread.exported, <<thread.table, backup.query>>),
                          !.files = (backup.query :> data[backup.query]) @@ backup.files]
                 \/ backup' = [backup EXCEPT !.threads[c][i].state = "raised"]
    /\ ArchiveFrame

NextArchive ==
    \/ ArchiveCycle
    \/ \E c \in CampaignIds :
          \/ WriteQuery(c)
          \/ CheckCall(c)

SpecArchive == InitArchive /\ [][NextArchive]_vars

(***************************************************************************)
(* Campaigns created after campaigns were deleted: a worker thread binds   *)
(* participant 0, stores samples, deletes and registers campaigns, and     *)
(* reads the samples back.                                                 *)
(***************************************************************************)
NextReuse ==
    \E p \in {1} :
        \/ BindSampler(p)
        \/ BindInsert(p)
        \/ BindCreateTable(p)
        \/ SubmitSample(p)
        \/ RetrieveFilteredDataRecords(p)
        \/ DeleteCampaignBeside(p)
        \/ DeleteCampaignRow(p)
        \/ RegisterCampaignBeside(p)
        \/ CreateCampaignNextId(p)
        \/ CreateCampaignInsert(p)
        \/ UpdateCampaign(p)
        \/ Return(p)

SpecReuse == Init /\ [][NextReuse]_vars

(***************************************************************************)
(* Heartbeats beside the removal of binding rows: the orphan pruning of    *)
(* the dashboard's participant listing, and                                *)
(* db_mgr.remove_participant_from_campaign.                                *)
(***************************************************************************)
\* remove_participant_from_campaign: delete from
\* "stats"."campaignParticipantStats" where "userId" and "campaignId".  No
\* handler calls it; it is taken as called from outside for a bound pair
remove_participant_from_campaign(db_user, db_campaign) ==
    /\ <<db_user, db_campaign>> \in participantStats
    /\ participantStats' = participantStats \ {<<db_user, db_campaign>>}
    /\ lastHeartbeatTimestamp' =
           [pr \in DOMAIN lastHeartbeatTimestamp \ {<<db_user, db_campaign>>} |->
               lastHeartbeatTimestamp[pr]]
    /\ UNCHANGED <<pc, req, resp, user, clock>>
    /\ BindingsFrame

NextPrune ==
    \/ UserRowRemoved
    \/ \E u \in Users, c \in Campaigns : remove_participant_from_campaign(u, c)
    \/ \E p \in {1} :
          \/ BindParticipant(p)
          \/ BindInsert(p)
          \/ BindCreateTable(p)
          \/ HandleParticipantsList(p)
    \/ \E p \in {2} :
          \/ SubmitHeartbeat(p)
          \/ UpdateHeartbeat(p)
    \/ \E p \in Threads : Return(p)

SpecPrune == Init /\ [][NextPrune]_vars

(***************************************************************************)
(* The session key in the reads of a participant's records and             *)
(* statistics: retrieveKNextDataRecords, retrieveFilteredDataRecords,      *)
(* downloadDumpfile and ETServiceServicer.retrieveParticipantStats.        *)
(***************************************************************************)
\* grpc_response.<field> = value: a field of an integer type refuses None
SetIntField(value) == IF value = None THEN [raises |-> "TypeError"] ELSE [value |-> value]

\* get_participant_heartbeat_timestamp: 0 if there is no row of the pair,
\* else the column of the row, which is null until the first heartbeat
get_participant_heartbeat_timestamp(db_user, db_campaign) ==
    IF <<db_user, db_campaign>> \notin participantStats THEN 0
    ELSE IF <<db_user, db_campaign>> \in DOMAIN lastHeartbeatTimestamp
    THEN lastHeartbeatTimestamp[<<db_user, db_campaign>>]
    ELSE None

\* get_participants_amount_of_data: sum("amountOfSamples") over the rows of
\* the pair, 0 when the sum is null
RECURSIVE SumOf(_, _)
SumOf(f, S) ==
    IF S = {} THEN 0
    ELSE LET k == CHOOSE x \in S : TRUE
         IN  (IF f[k].amountOfSamples = None THEN 0 ELSE f[k].amountOfSamples)
                + SumOf(f, S \ {k})

get_participants_amount_of_data(db_user, db_campaign) ==
    SumOf(perDataSourceStats,
          {key \in DOMAIN perDataSourceStats : key[1] = db_campaign /\ key[2] = db_user})

retrieveParticipantStats(p, request) ==
    /\ pc[p] = "idle"
    /\ LET db_user == get_user(request.userId)
           db_target_campaign == get_campaign(request.targetCampaignId)
           db_target_user == get_user(request.targetEmail)
           allowed ==
               /\ None \notin {db_user, db_target_user, db_target_campaign}
               /\ sessionKey[db_user] = request.sessionKey
               /\ user_is_bound_to_campaign(participantStats, db_target_user,
                                            db_target_campaign)
           heartbeat == SetIntField(get_participant_heartbeat_timestamp(
                                        db_target_user, db_target_campaign))
       IN  resp' = [resp EXCEPT ![p] =
                 IF ~ allowed THEN Failure
                 ELSE IF "raises" \in DOMAIN heartbeat THEN Raised(heartbeat.raises)
                 ELSE [success |-> TRUE, raised |-> "",
                       lastHeartbeatTimestamp |-> heartbeat.value,
                       amountOfSubmittedDataSamples |->
                           get_participants_amount_of_data(db_target_user,
                                                           db_target_campaign)]]
    /\ req' = [req EXCEPT ![p] = request]
    /\ pc' = [pc EXCEPT ![p] = "done"]
    /\ UNCHANGED <<participantStats, lastHeartbeatTimestamp, user, clock>>
    /\ BindingsFrame

ParticipantStatsRequests ==
    {[op |-> "retrieveParticipantStats", userId |-> u, sessionKey |-> k,
      targetEmail |-> tu, targetCampaignId |-> c]
        : u \in UserIds, k \in Users, tu \in UserIds, c \in CampaignIds}

\* range reads as the client sends them, with the caller's sessionKey field
KeyedFilteredRequests ==
    {FilteredRequest(u, 0, 0, d, Omitted, MaxTimestamp + 1, FALSE) @@ [sessionKey |-> k]
        : u \in UserIds, d \in DataSources, k \in Users}

RetrieveParticipantStats(p) ==
    \E request \in ParticipantStatsRequests : retrieveParticipantStats(p, request)

RetrieveKeyedFilteredDataRecords(p) ==
    /\ pc[p] = "idle"
    /\ \E request \in KeyedFilteredRequests : retrieveFilteredDataRecords(p, request)
    /\ UNCHANGED <<etData, upload, perDataSourceStats, rc, backup, registryVars>>

NextTokens ==
    \E p \in {1} :
        \/ BindSampler(p)
        \/ BindInsert(p)
        \/ BindCreateTable(p)
        \/ SubmitSample(p)
        \/ SubmitHeartbeat(p)
        \/ UpdateHeartbeat(p)
        \/ RetrieveKNextDataRecords(p)
        \/ RetrieveKeyedFilteredDataRecords(p)
        \/ DownloadDumpfile(p)
        \/ RetrieveParticipantStats(p)
        \/ Return(p)

SpecTokens == Init /\ [][NextTokens]_vars

(***************************************************************************)
(* Properties                                                              *)
(***************************************************************************)
\* the number of successful bind calls of a pair that returned isFirstTimeBinding = true
FirstTimeBindings(pr) == Cardinality({i \in 1 .. Len(bindHist[pr]) : bindHist[pr][i]})

\* C1: bind is atomic per pair: of the bind calls of one (participant,
\* campaign), whatever their interleaving, at most one returns
\* isFirstTimeBinding = true (and once all have returned, exactly one has),
\* and the pair has at most one binding row.
C1_BindAtomicPerPair ==
    \A pr \in Pairs :
        /\ FirstTimeBindings(pr) <= 1
        /\ Len(bindHist[pr]) = bindCalls[pr] /\ bindCalls[pr] > 0 => FirstTimeBindings(pr) = 1
        /\ Cardinality({r \in participantStats : r = pr}) <= 1

\* C2: two sequential bind calls of a pair return isFirstTimeBinding = true and
\* then false, and the data table of the pair exists from the completion of the
\* first call onward.
C2_SequentialBind ==
    \A pr \in Pairs :
        bindHist[pr] # <<>> =>
            /\ bindHist[pr][1] = TRUE
            /\ \A i \in 2 .. Len(bindHist[pr]) : bindHist[pr][i] = FALSE
            /\ TableName(pr[2], pr[1]) \in DOMAIN data

\* two sequential bind calls of one pair have returned
C2_Witness ==
    \E pr \in Pairs :
        /\ bindHist[pr] = <<TRUE, FALSE>>
        /\ pc[1] = "done" /\ req[1].op = "bindUserToCampaign"
        /\ resp[1].success /\ ~ resp[1].isFirstTimeBinding

\* every pair has been bound by at most one call, and every call has returned
DistinctBindsComplete ==
    \A pr \in Pairs : bindCalls[pr] <= 1 /\ Len(bindHist[pr]) = bindCalls[pr]

\* C3: when distinct participants bind to one campaign concurrently, one call
\* each, every one of them receives isFirstTimeBinding = true, and a listing of
\* the campaign's participants taken afterwards holds exactly the participants
\* that bound, each once.
C3_DistinctBindsAllListed ==
    [][/\ \A pr \in Pairs :
             bindCalls'[pr] = 1 /\ Len(bindHist'[pr]) = 1 => bindHist'[pr] = <<TRUE>>
       /\ \A p \in Threads :
             (/\ pc[p] = "idle" /\ pc'[p] = "done"
              /\ req'[p].op = "retrieveParticipants" /\ resp'[p].success
              /\ DistinctBindsComplete)
             => resp'[p].userId
                   = RowsInOrder({u \in Users : \E c \in Campaigns : bindCalls[<<u, c>>] = 1})
      ]_vars

\* every participant has bound once, and the creator has listed them all
C3_Witness ==
    /\ \A pr \in Pairs : bindCalls[pr] = 1 /\ bindHist[pr] = <<TRUE>>
    /\ \E p \in Threads :
          /\ pc[p] = "done" /\ req[p].op = "retrieveParticipants"
          /\ resp[p].success /\ resp[p].userId = RowsInOrder(Users)

\* C4: in every reachable state, also while a bind is in progress, a
\* participant that is bound to a campaign has its data table.
C4_BoundImpliesTable ==
    \A pr \in Pairs :
        user_is_bound_to_campaign(participantStats, pr[1], pr[2])
            => TableName(pr[2], pr[1]) \in DOMAIN data

\* thread p has just handled a request of operation op
Handled(p, op) == pc[p] = "done" /\ req[p].op = op

\* C5: a submitDataRecord or submitDataRecords request of a user that has no
\* binding to the campaign returns failure and leaves every data table as it
\* was.
C5_UnboundSubmitFails ==
    [][\A p \in Threads :
          (/\ pc[p] = "idle" /\ pc'[p] = "done"
           /\ req'[p].op \in {"submitDataRecord", "submitDataRecords"}
           /\ <<req'[p].userId, req'[p].campaignId>> \notin participantStats)
          => ~ resp'[p].success /\ data' = data
      ]_vars

\* an existing user without a binding has submitted to an existing campaign,
\* while another participant's table holds records
C5_Witness ==
    /\ pc[1] = "done" /\ req[1].op \in {"submitDataRecord", "submitDataRecords"}
    /\ req[1].userId \in Users /\ req[1].campaignId \in Campaigns
    /\ <<req[1].userId, req[1].campaignId>> \notin participantStats
    /\ ~ resp[1].success
    /\ \E t \in DOMAIN data : data[t] # <<>>

\* the rows of table t stored under the key (dataSourceId d, timestamp ts)
RowsOfKey(t, d, ts) ==
    {i \in 1 .. Len(data[t]) : data[t][i].dataSourceId = d /\ data[t][i].timestamp = ts}

C7_RoundTripExact ==
    \A p \in Threads :
        (Handled(p, "retrieveFilteredDataRecords") /\ resp[p].success
         /\ ~ req[p].simplifyIfTooLarge)
        => LET t == TableName(req[p].targetCampaignId, req[p].targetEmail)
               d == req[p].targetDataSourceId
           IN  /\ \A i \in 1 .. Len(resp[p].value) :
                     /\ <<t, resp[p].dataSource[i], resp[p].timestamp[i]>> \in DOMAIN lastWrite
                     /\ resp[p].value[i]
                           = lastWrite[<<t, resp[p].dataSource[i], resp[p].timestamp[i]>>]
               /\ \A ts \in Timestamps :
                     (/\ <<t, d, ts>> \in DOMAIN lastWrite
                      /\ req[p].fromTimestamp <= ts /\ ts < req[p].tillTimestamp)
                     => \E i \in 1 .. Len(resp[p].value) :
                           /\ resp[p].dataSource[i] = d /\ resp[p].timestamp[i] = ts
                           /\ resp[p].value[i] = lastWrite[<<t, d, ts>>]

\* a value longer than the simplification length and one exactly of that length
\* have been read back in full
C7_Witness ==
    /\ Handled(1, "retrieveFilteredDataRecords") /\ resp[1].success
    /\ ~ req[1].simplifyIfTooLarge
    /\ \E i, j \in 1 .. Len(resp[1].value) :
          /\ len(resp[1].value[i]) = SIMPLIFY_LEN + 1
          /\ len(resp[1].value[j]) = SIMPLIFY_LEN

\* the timestamps under which table t has ever been written for data source d
Written(t, d) == {ts \in Timestamps : <<t, d, ts>> \in DOMAIN lastWrite}

\* the records are those of data source d of table t at exactly the timestamps
\* of S, once each, in ascending timestamp order, with the values last written
ExactlyAscending(records, t, d, S) ==
    /\ Len(records) = Cardinality(S)
    /\ {records[i].timestamp : i \in 1 .. Len(records)} = S
    /\ \A i \in 1 .. Len(records) :
          /\ records[i].dataSourceId = d
          /\ records[i].value = lastWrite[<<t, d, records[i].timestamp>>]
          /\ i > 1 => records[i - 1].timestamp < records[i].timestamp

\* C8: get_next_k_data_records returns, in ascending timestamp order, the
\* min(k, n) records with the smallest timestamps among the n records of the
\* data source whose timestamp is >= from, whatever the order the records were
\* written in.
C8_NextKSmallestAscending ==
    \A p \in Threads :
        Handled(p, "get_next_k_data_records") =>
            LET t == req[p].table
                d == req[p].dataSource
                S == {ts \in Written(t, d) : ts >= req[p].fromTimestamp}
                n == Cardinality(S)
                m == IF req[p].k < n THEN req[p].k ELSE n
                returned == {resp[p].records[i].timestamp : i \in 1 .. Len(resp[p].records)}
            IN  /\ Len(resp[p].records) = m
                /\ returned \subseteq S
                /\ \A ts \in S \ returned : \A r \in returned : r < ts
                /\ ExactlyAscending(resp[p].records, t, d, returned)

\* two records were written latest first; from = 0, k = 1 returns only the
\* earlier one
C8_Witness ==
    /\ Handled(1, "get_next_k_data_records")
    /\ req[1].k = 1 /\ req[1].fromTimestamp = 0
    /\ Written(req[1].table, req[1].dataSource) = {1, 2}
    /\ \E i, j \in 1 .. Len(writeOrder) :
          /\ i < j
          /\ writeOrder[i] = <<req[1].table, req[1].dataSource, 2>>
          /\ writeOrder[j] = <<req[1].table, req[1].dataSource, 1>>
    /\ Len(resp[1].records) = 1 /\ resp[1].records[1].timestamp = 1

C10_RangeHalfOpen ==
    \A p \in Threads :
        (/\ Handled(p, "get_filtered_data_records")
         /\ req[p].fromTimestamp # None /\ req[p].tillTimestamp # None)
        => ExactlyAscending(resp[p].records, req[p].table, req[p].dataSource,
                            {ts \in Written(req[p].table, req[p].dataSource) :
                                req[p].fromTimestamp <= ts /\ ts < req[p].tillTimestamp})

\* records exist at from and at till; the one at from is returned, the one at
\* till is not
C10_Witness ==
    /\ Handled(1, "get_filtered_data_records")
    /\ req[1].fromTimestamp = 1 /\ req[1].tillTimestamp = 2
    /\ Written(req[1].table, req[1].dataSource) = {1, 2}
    /\ Len(resp[1].records) = 1 /\ resp[1].records[1].timestamp = 1

(***************************************************************************)
(* Range reads with one bound left out, and the size placeholder.          *)
(***************************************************************************)
\* the timestamps that a response lists
Returned(p) == {resp[p].timestamp[i] : i \in 1 .. Len(resp[p].timestamp)}

\* C11: a range read that leaves out tillTimestamp returns every record with
\* timestamp >= fromTimestamp, and one that leaves out fromTimestamp returns
\* every record with timestamp < tillTimestamp
C11_OmittedBoundUnbounded ==
    \A p \in Threads :
        (Handled(p, "retrieveFilteredDataRecords") /\ resp[p].success) =>
            LET t == TableName(req[p].targetCampaignId, req[p].targetEmail)
                d == req[p].targetDataSourceId
                from == req[p].fromTimestamp
                till == req[p].tillTimestamp
            IN  /\ (till = Omitted /\ from # Omitted) =>
                       Returned(p) = {ts \in Written(t, d) : ts >= from}
                /\ (from = Omitted /\ till # Omitted) =>
                       Returned(p) = {ts \in Written(t, d) : ts < till}

\* the bytes of a run-length encoded byte string, one by one
RECURSIVE Expand(_)
Expand(value) ==
    IF value = <<>> THEN <<>>
    ELSE [i \in 1 .. value[1][1] |-> value[1][2]] \o Expand(Tail(value))

\* the number that a run of decimal digits at the head of codes spells
RECURSIVE ParseDigits(_, _)
ParseDigits(codes, acc) ==
    IF codes = <<>> \/ Head(codes) \notin 48 .. 57 THEN acc
    ELSE ParseDigits(Tail(codes), acc * 10 + (Head(codes) - 48))

\* the length that a placeholder "[n] bytes" states, None when value is none
StatedLength(value) ==
    LET codes == Expand(value)
    IN  IF codes # <<>> /\ Head(codes) = 91 /\ Tail(codes) # <<>>
           /\ codes[2] \in 48 .. 57
        THEN ParseDigits(Tail(codes), 0)
        ELSE None

\* C12: a range read with simplifyIfTooLarge set returns, for a payload of
\* more than 500 bytes, a placeholder that states the payload's length, and
\* returns a payload of at most 500 bytes unchanged
C12_PlaceholderStatesLength ==
    \A p \in Threads :
        (/\ Handled(p, "retrieveFilteredDataRecords") /\ resp[p].success
         /\ req[p].simplifyIfTooLarge) =>
            \A i \in 1 .. Len(resp[p].value) :
                LET stored == lastWrite[<<TableName(req[p].targetCampaignId,
                                                    req[p].targetEmail),
                                          resp[p].dataSource[i],
                                          resp[p].timestamp[i]>>]
                IN  IF len(stored) > SIMPLIFY_LEN
                    THEN /\ resp[p].value[i] # stored
                         /\ StatedLength(resp[p].value[i]) = len(stored)
                    ELSE resp[p].value[i] = stored

\* one read returned a placeholder for a payload of 501 bytes and the payload
\* itself for one of exactly 500 bytes
C12_Witness ==
    /\ Handled(1, "retrieveFilteredDataRecords") /\ resp[1].success
    /\ req[1].simplifyIfTooLarge
    /\ \E i, j \in 1 .. Len(resp[1].value) :
          /\ StatedLength(resp[1].value[i]) = SIMPLIFY_LEN + 1
          /\ resp[1].value[j] = Bytes(SIMPLIFY_LEN, 7)

(***************************************************************************)
(* Batches that fail part of the way.                                      *)
(***************************************************************************)
\* C13: a batch write is never rolled back: the records of every sub-batch
\* that was submitted before the failing one stay readable, for the upload
\* server's sub-batches and for the records that the gateway stores one by one
C13_EarlierSubBatchesStay ==
    /\ \A b \in 1 .. Len(upload.executed) :
          ~ upload.executed[b].raised =>
              \A r \in 1 .. Len(upload.executed[b].rows) :
                  LET key == <<upload.user_id, upload.executed[b].rows[r][1]>>
                  IN  /\ key \in DOMAIN etData
                      /\ etData[key] = upload.executed[b].rows[r][2]
    /\ \A p \in Threads :
          (Handled(p, "submitDataRecords") /\ resp[p].raised = "OperationTimedOut") =>
              LET t == TableName(req[p].campaignId, req[p].userId)
              IN  \A i \in 1 .. resp[p].stored :
                      req[p].dataSource[i] \in DataSources =>
                          /\ <<t, req[p].dataSource[i], req[p].timestamp[i]>>
                                \in DOMAIN lastWrite
                          /\ \E r \in 1 .. Len(data[t]) :
                                /\ data[t][r].dataSourceId = req[p].dataSource[i]
                                /\ data[t][r].timestamp = req[p].timestamp[i]
                                /\ data[t][r].value =
                                      lastWrite[<<t, req[p].dataSource[i],
                                                  req[p].timestamp[i]>>]

\* an upload of three files was split into sub-batches of which the first was
\* executed and the second raised before the third file was reached, and a
\* gateway batch was interrupted after its first record
C13_Witness ==
    /\ upload.pc = "raised"
    /\ Len(upload.executed) = 2
    /\ ~ upload.executed[1].raised /\ upload.executed[2].raised
    /\ upload.i <= Len(upload.values_arr)
    /\ <<upload.user_id, upload.executed[1].rows[1][1]>> \in DOMAIN etData
    /\ Handled(1, "submitDataRecords") /\ resp[1].raised = "OperationTimedOut"
    /\ resp[1].stored = 1

\* C14: the payload of every sub-batch that is handed to the storage is at most
\* 25 MB in total
C14_SubBatchAtMost25MB ==
    \A b \in 1 .. Len(upload.executed) : upload.executed[b].size <= BATCH_SIZE

(***************************************************************************)
(* The statistics of "stats"."perDataSourceStats".                         *)
(***************************************************************************)
\* C15: submitDataRecord and submitDataRecords leave every row of
\* perDataSourceStats as it is; rows are created and updated only by steps of
\* amounts_of_data_routine
C15_OnlyReconcilerWritesStats ==
    [][/\ (\E p \in Threads :
              /\ pc[p] = "idle" /\ pc'[p] = "done"
              /\ req'[p].op \in {"submitDataRecord", "submitDataRecords"})
          => perDataSourceStats' = perDataSourceStats
       /\ perDataSourceStats' # perDataSourceStats
          => (rc.pc \in {"scan", "update"} /\ rc' # rc)]_vars

\* a sample was stored for a participant and data source whose row still
\* states the amount that the thread wrote before
C15_Witness ==
    /\ Handled(1, "submitDataRecord") /\ resp[1].success
    /\ LET key == <<req[1].campaignId, req[1].userId, req[1].dataSource>>
       IN  /\ key \in DOMAIN perDataSourceStats
           /\ perDataSourceStats[key].amountOfSamples # None
           /\ perDataSourceStats[key].amountOfSamples
                 < Cardinality(Written(TableName(key[1], key[2]), key[3]))

\* the largest timestamp of S, 0 when S is empty
Latest(S) == IF S = {} THEN 0 ELSE CHOOSE m \in S : \A ts \in S : ts <= m

\* C16: after a cycle during which nothing was bound and no record was added,
\* the row of every data source configured in the active campaign and every
\* bound participant states the number of the participant's records of that
\* data source and their largest timestamp, 0 when there is none
C16_CycleRecomputesStats ==
    (rc.pc = "sleep" /\ Epoch = rc.seen) =>
        \A c \in ActiveCampaigns, u \in Users, i \in 1 .. NumDataSources :
            LET d == configJson[c][i].data_source_id
                S == Written(TableName(c, u), d)
            IN  user_is_bound_to_campaign(participantStats, u, c) =>
                    /\ <<c, u, d>> \in DOMAIN perDataSourceStats
                    /\ perDataSourceStats[<<c, u, d>>].amountOfSamples = Cardinality(S)
                    /\ perDataSourceStats[<<c, u, d>>].syncTimestamp = Latest(S)

\* a cycle without writes ended with one data source of participant 0 holding
\* two records and the other none
C16_Witness ==
    /\ rc.pc = "sleep" /\ Epoch = rc.seen
    /\ user_is_bound_to_campaign(participantStats, 0, 0)
    /\ \E d, e \in DataSources :
          /\ <<0, 0, d>> \in DOMAIN perDataSourceStats
          /\ perDataSourceStats[<<0, 0, d>>].amountOfSamples = 2
          /\ <<0, 0, e>> \in DOMAIN perDataSourceStats
          /\ perDataSourceStats[<<0, 0, e>>].syncTimestamp = 0

\* C17: reconciliation is idempotent: a cycle that ends with nothing bound and
\* no record added since the cycle before it began leaves every row with the
\* values that the cycle before it left
C17_ReconciliationIdempotent ==
    [][(rc.pc = "scan" /\ rc'.pc = "sleep" /\ rc.seenPrev = Epoch)
          => perDataSourceStats' = rc.prev]_vars

\* two cycles ran over the same records, of which there is at least one
C17_Witness ==
    /\ rc.pc = "sleep" /\ rc.seenPrev = Epoch
    /\ rc.prev = perDataSourceStats
    /\ \E key \in DOMAIN perDataSourceStats :
          perDataSourceStats[key].amountOfSamples # None
          /\ perDataSourceStats[key].amountOfSamples >= 1

(***************************************************************************)
(* Failures inside the background threads.                                 *)
(***************************************************************************)
\* C19: a scan that fails for one participant and data source is skipped: the
\* thread goes on with the pairs that remain in the cycle
C19_FailedPairSkipped ==
    [][(rc.pc = "scan" /\ rc'.raised # "")
          => (rc'.pc = "scan" /\ rc'.work = Tail(rc.work))]_vars

\* C20: the background loops survive the errors of their work items: after a
\* failed scan the statistics thread is still running, and after a failed
\* export the backup loop is
C20_LoopsSurviveErrors ==
    /\ rc.raised # "" => rc.pc # "dead"
    /\ (\E c \in Campaigns : \E i \in 1 .. Len(backup.threads[c]) :
            backup.threads[c][i].state = "raised")
          => backup.pc \in {"started", "sleep"}

\* every row of a bound participant states the records that the participant's
\* table holds
StatsConsistent ==
    \A c \in ActiveCampaigns, u \in Users, i \in 1 .. NumDataSources :
        LET d == configJson[c][i].data_source_id
            S == Written(TableName(c, u), d)
        IN  user_is_bound_to_campaign(participantStats, u, c) =>
                /\ <<c, u, d>> \in DOMAIN perDataSourceStats
                /\ perDataSourceStats[<<c, u, d>>].amountOfSamples = Cardinality(S)
                /\ perDataSourceStats[<<c, u, d>>].syncTimestamp = Latest(S)

\* no handler that stores records is running or has just run
WritesStopped ==
    \A p \in Threads : req[p].op \notin {"submitDataRecord", "submitDataRecords"}

\* C18: if from some point on no record is written to the tables of the bound
\* participants of the active campaign, then from some point on every row
\* states the true number of records and their largest timestamp
C18_EventuallyConsistent == (<>[]WritesStopped) => (<>[]StatsConsistent)

(***************************************************************************)
(* The export threads of backup_routine.                                   *)
(***************************************************************************)
\* the number of export threads of a campaign that are running
AliveRuns(threads) == Cardinality({i \in 1 .. Len(threads) : threads[i].state = "alive"})

\* C21: for every campaign at most one export is running at any time, and
\* while one is running no step starts or queues another
C21_OneRunPerCampaign ==
    [][\A c \in Campaigns :
          /\ AliveRuns(backup'.threads[c]) <= 1
          /\ AliveRuns(backup.threads[c]) > 0
                => Len(backup'.threads[c]) <= Len(backup.threads[c])]_vars

\* a turn of the loop passed over the campaign because its export, which has
\* exported one of two participants, was still running
C21_Witness ==
    /\ 0 \in backup.skipped
    /\ AliveRuns(backup.threads[0]) = 1
    /\ Len(backup.threads[0]) = 1
    /\ Len(backup.threads[0][1].todo) = 1
    /\ Cardinality(DOMAIN backup.files) = 1

\* C22: an export that fails for one participant is caught: the thread goes on
\* with the participants that remain
C22_FailedExportSkipped ==
    [][\A c \in Campaigns : \A i \in 1 .. Len(backup.threads[c]) :
          (/\ backup.threads[c][i].state = "alive"
           /\ backup.threads[c][i].todo # <<>>
           /\ backup'.threads[c] # backup.threads[c]
           /\ backup'.files = backup.files
           /\ backup'.pc = backup.pc /\ Len(backup'.threads[c]) = Len(backup.threads[c]))
          => /\ backup'.threads[c][i].state = "alive"
             /\ backup'.threads[c][i].todo = Tail(backup.threads[c][i].todo)]_vars

\* C23: startup gating: the server accepts requests only after the storage
\* backend has been reached and its schema is present, verified or created;
\* a storage call of the startup that fails as unreachable sends the server
\* back to waiting, not on to serving.
C23_ServesOnlyOnReadyBackend ==
    boot.pc = "serving" => boot.session /\ boot.schema = NumSchemaStatements

\* the caller of a FetchNextK request presents the session key of its user
\* row and is the creator or a bound participant of the target campaign, and
\* the target is the creator or a bound participant of it
FetchAuthorized(r) ==
    /\ get_user(r.userId) # None
    /\ get_user(r.targetEmail) # None
    /\ get_campaign(r.targetCampaignId) # None
    /\ sessionKey[r.userId] = r.sessionKey
    /\ \/ creatorId[r.targetCampaignId] = r.userId
       \/ <<r.userId, r.targetCampaignId>> \in participantStats
    /\ \/ creatorId[r.targetCampaignId] = r.targetEmail
       \/ <<r.targetEmail, r.targetCampaignId>> \in participantStats

\* C24: FetchNextK returns records only to a caller with a valid session
\* token who is the creator or a bound participant of the target campaign,
\* and only of a target that is the creator or bound; every other request
\* ends without success and without records.
C24_FetchNextKAuthorized ==
    \A p \in Threads :
        pc[p] = "done" /\ req[p].op = "retrieveKNextDataRecords"
        /\ ~ FetchAuthorized(req[p])
        => /\ ~ resp[p].success
           /\ resp[p].timestamp = <<>>
           /\ resp[p].value = <<>>

\* a bound participant whose table holds records asks for them with a session
\* key that is not theirs
C24_Witness ==
    \E p \in Threads :
        /\ pc[p] = "done" /\ req[p].op = "retrieveKNextDataRecords"
        /\ <<req[p].userId, req[p].targetCampaignId>> \in participantStats
        /\ req[p].targetEmail = req[p].userId
        /\ req[p].sessionKey # sessionKey[req[p].userId]
        /\ req[p].k <= MAX_K_RECORDS
        /\ data[TableName(req[p].targetCampaignId, req[p].targetEmail)] # <<>>
        /\ ~ resp[p].success /\ resp[p].timestamp = <<>>

\* C25: DownloadShardDump produces an export only when the caller is the
\* creator of the campaign and the target participant is bound to it: every
\* export served was asked for by the creator, of a bound participant.
C25_ExportOnlyForCreatorOfBound ==
    \A dump \in dumps :
        /\ creatorId[dump.campaignId] = dump.userId
        /\ <<dump.targetUserId, dump.campaignId>> \in participantStats

\* a thread has finished a registerCampaign or campaign-editor request that
\* named an existing campaign of another creator
EditOfForeignCampaign(p) ==
    /\ pc[p] = "done"
    /\ req[p].op \in {"registerCampaign", "handle_campaign_editor"}
    /\ req[p].db_user # None
    /\ req[p].db_campaign # NoRow
    /\ req[p].db_campaign[1] # req[p].db_user

\* C26: registerOrUpdateCampaign updates an existing campaign only for its
\* creator: a request that names a campaign created by someone else fails,
\* and the name, notes, configuration and start/end timestamps of a campaign
\* row change only in a write made for the row's creator.
C26_UpdateOnlyByCreator ==
    [][/\ \A p \in Threads : EditOfForeignCampaign(p)' => ~ resp'[p].success
       /\ \A key \in DOMAIN campaign \cap DOMAIN campaign' :
             campaign'[key] # campaign[key]
             => \E p \in Threads :
                   /\ pc[p] \in {"update_campaign", "insert_campaign"}
                   /\ pc'[p] = "done"
                   /\ req[p].userId = key[1]]_vars

\* the user who did not create campaign 0 asked, with the right session key,
\* to change it: the request failed and the row is as it was registered
C26_Witness ==
    \E p \in Threads :
        /\ EditOfForeignCampaign(p)
        /\ req[p].op = "registerCampaign"
        /\ req[p].sessionKey = sessionKey[req[p].db_user]
        /\ ~ resp[p].success
        /\ req[p].db_campaign \in DOMAIN campaign
        /\ campaign[req[p].db_campaign] = CampaignColumns(0)

\* C27: only the creator can delete a campaign: a row of "et"."campaign"
\* disappears only in a delete made for a request of the row's creator; the
\* delete request of anyone else, a researcher of the campaign included,
\* leaves the row in place.
C27_OnlyCreatorDeletes ==
    [][\A key \in DOMAIN campaign \ DOMAIN campaign' :
          \E p \in Threads :
              /\ pc[p] = "delete_campaign"
              /\ pc'[p] = "done"
              /\ req[p].userId = key[1]]_vars

\* C28: campaign deletion does not cascade: the delete removes the campaign
\* row and leaves every binding, every data table with its records, and
\* every perDataSourceStats row as it was.
C28_DeleteDoesNotCascade ==
    [][\A p \in Threads :
          pc[p] = "delete_campaign" /\ pc'[p] = "done"
          => /\ DOMAIN campaign' = DOMAIN campaign \ {req[p].db_campaign}
             /\ UNCHANGED <<participantStats, data, perDataSourceStats,
                            lastHeartbeatTimestamp>>]_vars

\* campaign 0 is deleted; its binding, its table with a record and its
\* statistics row are there
C28_Witness ==
    /\ 0 \notin CampaignRowIds
    /\ \E u \in Users :
          /\ <<u, 0>> \in participantStats
          /\ TableName(0, u) \in DOMAIN data
          /\ data[TableName(0, u)] # <<>>
          /\ \E d \in DataSources : <<0, u, d>> \in DOMAIN perDataSourceStats

\* C29: listParticipants prunes orphans on read: when a listing of the
\* participants of campaign C returns, no binding row of C refers to a
\* participant that no longer resolves.
C29_ListingPrunesOrphans ==
    [][\A p \in Threads :
          /\ pc[p] = "idle" /\ pc'[p] = "done"
          /\ req'[p].op \in {"retrieveParticipants", "handle_participants_list"}
          /\ resp'[p].success
          => \A r \in participantStats' : r[2] = req'[p].campaignId => r[1] \in user']_vars

\* the binding row of the participant and campaign that a heartbeat names
HeartbeatPair(r) == <<r.userId, r.campaignId>>

\* C30 as stated: SubmitHeartbeat goes on to set last_heartbeat_timestamp
\* if and only if the binding row of (C, P) exists at the time of the call.
C30_SucceedsIffBindingRow ==
    [][\A p \in Threads :
          pc[p] = "idle" /\ req'[p].op = "submitHeartbeat"
          => (pc'[p] = "update_heartbeat" <=> HeartbeatPair(req'[p]) \in participantStats)]_vars

\* C30, amended: SubmitHeartbeat succeeds and sets last_heartbeat_timestamp
\* of the binding (C, P) to the current time if and only if, at the time of
\* the call, P and C both resolve and the binding row of (C, P) exists;
\* otherwise it returns failure, and no binding row is changed by it.
C30_SucceedsIffResolvedAndBound ==
    [][/\ \A p \in Threads :
             pc[p] = "idle" /\ req'[p].op = "submitHeartbeat"
             => /\ pc'[p] = "update_heartbeat"
                   <=> /\ req'[p].userId \in user
                       /\ req'[p].campaignId \in CampaignRowIds
                       /\ HeartbeatPair(req'[p]) \in participantStats
                /\ pc'[p] \in {"update_heartbeat", "done"}
                /\ ~ resp'[p].success
                /\ UNCHANGED <<participantStats, lastHeartbeatTimestamp>>
       /\ \A p \in Threads :
             pc[p] = "update_heartbeat" /\ pc'[p] # pc[p]
             => /\ pc'[p] = "done" /\ resp'[p].success
                /\ lastHeartbeatTimestamp'[HeartbeatPair(req[p])] = clock
       /\ \A pr \in Pairs :
             /\ pr \in DOMAIN lastHeartbeatTimestamp'
             /\ (pr \in DOMAIN lastHeartbeatTimestamp
                    => lastHeartbeatTimestamp'[pr] # lastHeartbeatTimestamp[pr])
             => \E p \in Threads :
                   /\ pc[p] = "update_heartbeat" /\ pc'[p] = "done"
                   /\ HeartbeatPair(req[p]) = pr]_vars

\* a heartbeat of a bound participant has succeeded after the clock has moved
\* on, and one of an unbound user has failed
C30_Witness ==
    /\ pc[1] = "done" /\ req[1].op = "submitHeartbeat" /\ resp[1].success
    /\ clock > 1
    /\ lastHeartbeatTimestamp[HeartbeatPair(req[1])] = clock
    /\ pc[2] = "done" /\ req[2].op = "submitHeartbeat" /\ ~ resp[2].success
    /\ req[2].userId \in user /\ req[2].campaignId \in CampaignRowIds
    /\ HeartbeatPair(req[2]) \notin participantStats

(***************************************************************************)
(* The cycles of amounts_of_data_routine.                                  *)
(***************************************************************************)
\* the (participant, data source) pairs of campaign c that the running cycle
\* has still to recompute
PendingOf(work, c) == SelectSeq(work, LAMBDA w : w[1] = c)

\* C31: the cycles over a campaign do not overlap: in every step the pairs of
\* the campaign that the thread has still to recompute stay as they are or
\* lose their first, and a cycle over the campaign begins only when none of
\* the cycle before is left and the thread is at the head of its loop
C31_CyclesDoNotOverlap ==
    [][\A c \in Campaigns :
          LET before == PendingOf(rc.work, c)
              after == PendingOf(rc'.work, c)
          IN  \/ after = before /\ rc'.seen = rc.seen
              \/ before # <<>> /\ after = Tail(before) /\ rc'.seen = rc.seen
              \/ before = <<>> /\ rc.pc \in {"started", "sleep"}]_vars

\* a second cycle over campaign 0 is under way, with pairs recomputed and
\* pairs still to recompute, after a first that recomputed rows
C31_Witness ==
    /\ rc.pc = "update" /\ rc.seenPrev # <<>>
    /\ PendingOf(rc.work, 0) # <<>>
    /\ Len(PendingOf(rc.work, 0)) < NumDataSources * Cardinality(participantStats)
    /\ rc.prev # <<>> /\ DOMAIN rc.prev # {}

(***************************************************************************)
(* The wait loop of main() under fair scheduling.                          *)
(***************************************************************************)
\* C32: the startup retry makes progress: if the backend is reachable from
\* some point on, whatever attempts failed before, main() obtains a session
\* and starts the server; it does not stay in its wait loop for ever
C32_StartupRetryProgress ==
    (<>[](boot.up)) => <>(boot.pc = "serving" /\ boot.session)

(***************************************************************************)
(* The tables that accepted requests name.                                 *)
(***************************************************************************)
\* the handlers that store into or read from a participant's data table
ShardOps ==
    {"submitDataRecord", "submitDataRecords", "retrieveKNextDataRecords",
     "retrieveFilteredDataRecords"}

\* C33: a request that passes the checks of its handler names a data table
\* that exists: no store or read of an accepted submitDataRecord(s),
\* retrieveKNextDataRecords or retrieveFilteredDataRecords is refused by the
\* storage for naming a table that does not exist, and every export served
\* is the export of a table that exists
C33_AcceptedRequestsNameExistingTables ==
    /\ \A p \in Threads :
          (pc[p] = "done" /\ req[p].op \in ShardOps)
             => resp[p].raised # "InvalidRequest"
    /\ \A d \in dumps : TableName(d.campaignId, d.targetUserId) \in DOMAIN data

(***************************************************************************)
(* Export threads of different campaigns.                                  *)
(***************************************************************************)
\* C34: the export threads of different campaigns do not interfere: every
\* copy that a thread has cqlsh run copies the table that the thread wrote
\* its command for
C34_ExportsThePreparedTable ==
    \A c \in CampaignIds : \A i \in 1 .. Len(backup.threads[c]) :
        \A k \in 1 .. Len(backup.threads[c][i].exported) :
            backup.threads[c][i].exported[k][1] = backup.threads[c][i].exported[k][2]

C36_CreatedIdIsFresh ==
    [][\A p \in Threads :
          (pc[p] = "insert_campaign" /\ pc'[p] = "done")
             => req[p].next_id \notin CampaignRowIds]_vars

(***************************************************************************)
(* Campaigns created after campaigns were deleted.                         *)
(***************************************************************************)
\* the participants whose binding row names campaign c
BoundTo(c) == {r[1] : r \in {x \in participantStats : x[2] = c}}

\* the records stored in the data tables of campaign c
RecordsOf(c) ==
    UNION {{data[t][i] : i \in 1 .. Len(data[t])} : t \in {x \in DOMAIN data : x[1] = c}}

\* C37: a newly created campaign starts empty: when the insert of a create
\* writes the row of a campaign id that no row bore, no binding row names
\* that id and the data tables of that id hold no record
C37_NewCampaignStartsEmpty ==
    [][\A p \in Threads :
          (/\ pc[p] = "insert_campaign" /\ pc'[p] = "done"
           /\ req[p].next_id \notin CampaignRowIds)
             => (BoundTo(req[p].next_id) = {} /\ RecordsOf(req[p].next_id) = {})]_vars

(***************************************************************************)
(* Heartbeats beside the removal of binding rows.                          *)
(***************************************************************************)
\* C38: binding rows come into existence only through bind: the update of a
\* heartbeat leaves campaignParticipantStats with the rows it had, whatever
\* removal of the row ran beside the heartbeat
C38_HeartbeatCreatesNoBinding ==
    [][\A p \in Threads :
          (pc[p] = "update_heartbeat" /\ pc'[p] = "done")
             => participantStats' \subseteq participantStats]_vars

(***************************************************************************)
(* What a save_data_cassandra call that returns has stored.                *)
(***************************************************************************)
\* the places <<b, j>> of the sub-batches executed by the running call that
\* hold the pair (timestamp, value)
SubmittedAt(timestamp, value) ==
    {bj \in UNION {{<<b, j>> : j \in 1 .. Len(upload.executed[b].rows)}
                      : b \in 1 .. Len(upload.executed)} :
        upload.executed[bj[1]].rows[bj[2]] = <<timestamp, value>>}

\* C39: a save_data_cassandra call in which no execute failed has stored its
\* whole input: every (timestamp, value) pair, the pairs with an empty value
\* included, was submitted in exactly one sub-batch and is a row of the table
C39_WholeInputStored ==
    upload.pc = "done" =>
        \A i \in 1 .. Len(upload.timestamps_arr) :
            /\ Cardinality(SubmittedAt(upload.timestamps_arr[i], upload.values_arr[i])) = 1
            /\ <<upload.user_id, upload.timestamps_arr[i]>> \in DOMAIN etData
            /\ etData[<<upload.user_id, upload.timestamps_arr[i]>>] = upload.values_arr[i]

(***************************************************************************)
(* The session key in the reads of records and statistics.                 *)
(***************************************************************************)
\* the handlers that return a participant's stored records or statistics
ReadOps ==
    {"retrieveKNextDataRecords", "retrieveFilteredDataRecords", "downloadDumpfile",
     "retrieveParticipantStats"}

\* C40: a read of a participant's records or statistics succeeds only if the
\* session key of the request is the stored session key of the calling user;
\* with another key, or none, it fails
C40_ReadsRequireSessionKey ==
    \A p \in Threads :
        (pc[p] = "done" /\ req[p].op \in ReadOps /\ resp[p].success)
           => /\ get_user(req[p].userId) # None
              /\ req[p].sessionKey = sessionKey[req[p].userId]

====
